---- MODULE Spec2Model ----
(***************************************************************************)
(* Tracking and alerting core of the Eyeora server:                        *)
(*   core/tracker.py       Detection, Track, PersonTracker                 *)
(*   core/alert_system.py  Alert, AlertSystem                              *)
(* PersonTracker and AlertSystem are independent objects, so each has its  *)
(* own specification over its own variables.                               *)
(***************************************************************************)
EXTENDS Integers, Sequences, FiniteSets, TLC

VARIABLES
    \* PersonTracker
    min_hits,        \* PersonTracker.min_hits, fixed by the constructor
    tracks,          \* PersonTracker.tracks: list of Track
    next_track_id,   \* PersonTracker.next_track_id
    frame_count,     \* PersonTracker.frame_count
    call,            \* the arguments of the last PersonTracker.update() call
    matching,        \* the greedy loop of _match_detections_to_tracks, iteration by iteration
    \* AlertSystem
    alerts,          \* the Alert objects stored so far; an object is named by its index
    active_alerts,   \* AlertSystem.active_alerts: list of Alert objects (indices)
    alert_history,   \* AlertSystem.alert_history: list of Alert objects (indices)
    callbacks,       \* AlertSystem.callbacks: list of callables
    total_alerts,    \* AlertSystem.total_alerts
    alerts_by_type,  \* AlertSystem.alerts_by_type
    alerts_log,      \* the lines appended to REPORTS_DIR/alerts.log
    now,             \* the clock read by time.time(), in milliseconds
    acall,           \* the last AlertSystem call: arguments, result, callbacks invoked
    \* core/behavior_analyzer.py: one BehaviorAnalyzer
    analyzer,        \* the BehaviorAnalyzer object: frame size, fps, zone_detector
    analyses,        \* the analyze_track() calls made so far: track given, dict returned
    summary_call,    \* the last generate_summary() call: list given, dict returned
    \* core/behavior_analyzer.py: one ZoneDetector
    zones_config,     \* ENTRY_ZONE, EXIT_ZONE, CHECKOUT_ZONE as imported from core/config.py
    zone_detector,   \* the ZoneDetector constructed, None before
    zone_call,       \* the last get_zone_name() call: point given, name returned
    \* the server around the core classes
    constructed,     \* the last constructor call: arguments given, instance returned
    processing,      \* the thread inside check_alerts(): its position and pending alerts
    reading,         \* the last get_statistics() of the reader thread
    streams          \* per streaming client of one camera: its position in the frame loop

trackerVars == <<min_hits, tracks, next_track_id, frame_count, call, matching>>

alertVars == <<alerts, active_alerts, alert_history, callbacks, total_alerts,
               alerts_by_type, alerts_log, now, acall>>

analyzerVars == <<analyzer, analyses, summary_call, zones_config, zone_detector, zone_call>>

serverVars == <<constructed, processing, reading, streams>>

vars == <<min_hits, tracks, next_track_id, frame_count, call, matching,
          alerts, active_alerts, alert_history, callbacks, total_alerts,
          alerts_by_type, alerts_log, now, acall, analyzer, analyses, summary_call,
          zones_config, zone_detector, zone_call,
          constructed, processing, reading, streams>>

----------------------------------------------------------------------------
(* Bounds of the exploration *)

MaxFrames == 4       \* update() calls explored per tracker

----------------------------------------------------------------------------
(* Python values *)

None == <<>>                     \* Optional[...] = None
Some(v) == <<v>>                 \* Optional[...] holding v
IsNone(o) == o = <<>>
Val(o) == o[1]

Max(a, b) == IF a >= b THEN a ELSE b
Min(a, b) == IF a <= b THEN a ELSE b

Last(s) == s[Len(s)]

\* a float quotient n/d with d > 0, kept exact as <<n, d>>
Ratio(n, d) == <<n, d>>
RatioZero == <<0, 1>>
RatioLess(p, q) == p[1] * q[2] < q[1] * p[2]
RatioGreater(p, q) == RatioLess(q, p)

----------------------------------------------------------------------------
(* core/tracker.py: Detection *)

\* bounding boxes [x1, y1, x2, y2] fed by the detector
BoxA == <<0, 0, 26, 2>>
BoxB == <<14, 0, 40, 2>>       \* IoU(BoxA, BoxB) = 24/80 = 0.3
BoxC == <<30, 0, 56, 2>>       \* IoU(BoxA, BoxC) = 0 (disjoint), IoU(BoxB, BoxC) = 20/84

Detection(bbox, class_name) == [bbox |-> bbox, class_name |-> class_name]

center(d) == <<(d.bbox[1] + d.bbox[3]) \div 2, (d.bbox[2] + d.bbox[4]) \div 2>>

Detections ==
    { Detection(b, "person") : b \in {BoxA, BoxB, BoxC} } \cup { Detection(BoxA, "car") }

RECURSIVE SeqsUpTo(_, _)
SeqsUpTo(S, n) ==
    IF n = 0 THEN { <<>> }
    ELSE LET shorter == SeqsUpTo(S, n - 1)
         IN  shorter \cup { Append(s, x) : s \in { t \in shorter : Len(t) = n - 1 }, x \in S }

\* the batches of at most two detections
DetectionBatches == SeqsUpTo(Detections, 2)

\* seconds between two processed frames (timestamp = frame_num / fps)
TimeSteps == {2}

----------------------------------------------------------------------------
(* core/tracker.py: Track *)

NewTrack(id) ==
    [ track_id |-> id,
      detections |-> <<>>, positions |-> <<>>, timestamps |-> <<>>, frames |-> <<>>,
      is_active |-> TRUE,
      entry_time |-> None, exit_time |-> None,
      entry_frame |-> None, exit_frame |-> None,
      visited_zones |-> <<>>, behavior_history |-> <<>>, idle_duration |-> 0,
      visited_checkout |-> FALSE, made_purchase |-> FALSE,
      frames_without_detection |-> 0, total_frames |-> 0 ]

\* Track.update without the append to frames
TrackUpdate_without_frame(t, detection, frame_num, timestamp) ==
    [ t EXCEPT
        !.detections = Append(@, detection),
        !.positions = Append(@, center(detection)),
        !.timestamps = Append(@, timestamp),
        !.frames_without_detection = 0,
        !.total_frames = @ + 1,
        !.entry_time = IF IsNone(t.entry_time) THEN Some(timestamp) ELSE @,
        !.entry_frame = IF IsNone(t.entry_time) THEN Some(frame_num) ELSE @ ]

\* Track.update also adding the time since the last sample to idle_duration
TrackUpdate_timing_idle(t, detection, frame_num, timestamp) ==
    [ t EXCEPT
        !.detections = Append(@, detection),
        !.positions = Append(@, center(detection)),
        !.timestamps = Append(@, timestamp),
        !.frames = Append(@, frame_num),
        !.frames_without_detection = 0,
        !.total_frames = @ + 1,
        !.idle_duration = IF t.timestamps = <<>> THEN @
                          ELSE @ + (timestamp - Last(t.timestamps)),
        !.entry_time = IF IsNone(t.entry_time) THEN Some(timestamp) ELSE @,
        !.entry_frame = IF IsNone(t.entry_time) THEN Some(frame_num) ELSE @ ]

\* Track.update
TrackUpdate(t, detection, frame_num, timestamp) ==
    [ t EXCEPT
        !.detections = Append(@, detection),
        !.positions = Append(@, center(detection)),
        !.timestamps = Append(@, timestamp),
        !.frames = Append(@, frame_num),
        !.frames_without_detection = 0,
        !.total_frames = @ + 1,
        !.entry_time = IF IsNone(t.entry_time) THEN Some(timestamp) ELSE @,
        !.entry_frame = IF IsNone(t.entry_time) THEN Some(frame_num) ELSE @ ]

\* Track.mark_lost counting two frames
mark_lost_twice(t) == [ t EXCEPT !.frames_without_detection = @ + 2 ]

\* Track.mark_lost
mark_lost(t) == [ t EXCEPT !.frames_without_detection = @ + 1 ]

\* Track.mark_exited without self.is_active = False
mark_exited_keeps_active(t, timestamp, frame_num) ==
    [ t EXCEPT !.exit_time = Some(timestamp), !.exit_frame = Some(frame_num) ]

\* Track.mark_exited
mark_exited(t, timestamp, frame_num) ==
    [ t EXCEPT !.is_active = FALSE,
               !.exit_time = Some(timestamp),
               !.exit_frame = Some(frame_num) ]

----------------------------------------------------------------------------
(* core/tracker.py: PersonTracker *)

max_age == 1                     \* PersonTracker(max_age=1, ...)
MinHitsChoices == {1, 2}         \* PersonTracker(min_hits=1 or 2, ...)
iou_threshold == Ratio(3, 10)    \* default iou_threshold = 0.3

\* PersonTracker._calculate_iou
calculate_iou(bbox1, bbox2) ==
    LET x_min == Max(bbox1[1], bbox2[1])
        y_min == Max(bbox1[2], bbox2[2])
        x_max == Min(bbox1[3], bbox2[3])
        y_max == Min(bbox1[4], bbox2[4])
        intersection == (x_max - x_min) * (y_max - y_min)
        area1 == (bbox1[3] - bbox1[1]) * (bbox1[4] - bbox1[2])
        area2 == (bbox2[3] - bbox2[1]) * (bbox2[4] - bbox2[2])
        union == area1 + area2 - intersection
    IN  IF x_max < x_min \/ y_max < y_min THEN RatioZero
        ELSE IF union > 0 THEN Ratio(intersection, union) ELSE RatioZero

\* the iou_matrix filled for inactive tracks too
iou_matrix_all_rows(ts, detections) ==
    [ t_idx \in 1..Len(ts) |->
        [ d_idx \in 1..Len(detections) |->
            IF ts[t_idx].detections = <<>>
            THEN RatioZero
            ELSE calculate_iou(Last(ts[t_idx].detections).bbox, detections[d_idx].bbox) ] ]

\* the iou_matrix of _match_detections_to_tracks: rows of inactive tracks stay 0
iou_matrix(ts, detections) ==
    [ t_idx \in 1..Len(ts) |->
        [ d_idx \in 1..Len(detections) |->
            IF ~ts[t_idx].is_active \/ ts[t_idx].detections = <<>>
            THEN RatioZero
            ELSE calculate_iou(Last(ts[t_idx].detections).bbox, detections[d_idx].bbox) ] ]

\* the scan with >= in place of >: the last greatest remaining entry
RECURSIVE scan_max_last_found(_, _, _, _, _, _, _)
scan_max_last_found(matrix, nT, nD, matched_tracks, matched_detections, k, best) ==
    IF k > nT * nD THEN best
    ELSE LET t_idx == ((k - 1) \div nD) + 1
             d_idx == ((k - 1) % nD) + 1
             better == /\ t_idx \notin matched_tracks
                       /\ d_idx \notin matched_detections
                       /\ ~RatioLess(matrix[t_idx][d_idx], best.max_iou)
         IN  scan_max_last_found(matrix, nT, nD, matched_tracks, matched_detections, k + 1,
                      IF better
                      THEN [max_iou |-> matrix[t_idx][d_idx],
                            max_track |-> t_idx, max_detection |-> d_idx]
                      ELSE best)

\* the scan without the two "continue" tests on the matched sets
RECURSIVE scan_max_ignoring_matched(_, _, _, _, _, _, _)
scan_max_ignoring_matched(matrix, nT, nD, matched_tracks, matched_detections, k, best) ==
    IF k > nT * nD THEN best
    ELSE LET t_idx == ((k - 1) \div nD) + 1
             d_idx == ((k - 1) % nD) + 1
             better == RatioGreater(matrix[t_idx][d_idx], best.max_iou)
         IN  scan_max_ignoring_matched(matrix, nT, nD, matched_tracks, matched_detections,
                      k + 1,
                      IF better
                      THEN [max_iou |-> matrix[t_idx][d_idx],
                            max_track |-> t_idx, max_detection |-> d_idx]
                      ELSE best)

\* one scan of the while-loop body: the first strictly greatest remaining entry,
\* cells visited by rows then columns; max_track = 0 stands for "none found"
RECURSIVE scan_max(_, _, _, _, _, _, _)
scan_max(matrix, nT, nD, matched_tracks, matched_detections, k, best) ==
    IF k > nT * nD THEN best
    ELSE LET t_idx == ((k - 1) \div nD) + 1
             d_idx == ((k - 1) % nD) + 1
             better == /\ t_idx \notin matched_tracks
                       /\ d_idx \notin matched_detections
                       /\ RatioGreater(matrix[t_idx][d_idx], best.max_iou)
         IN  scan_max(matrix, nT, nD, matched_tracks, matched_detections, k + 1,
                      IF better
                      THEN [max_iou |-> matrix[t_idx][d_idx],
                            max_track |-> t_idx, max_detection |-> d_idx]
                      ELSE best)

\* the greedy while-loop without matched_detections.add(max_detection)
RECURSIVE greedy_pairs_keeps_detection(_, _, _, _, _, _)
greedy_pairs_keeps_detection(matrix, nT, nD, matched_tracks, matched_detections, pairs) ==
    LET best == scan_max(matrix, nT, nD, matched_tracks, matched_detections, 1,
                         [max_iou |-> RatioZero, max_track |-> 0, max_detection |-> 0])
    IN  IF RatioLess(best.max_iou, iou_threshold) THEN pairs
        ELSE greedy_pairs_keeps_detection(matrix, nT, nD,
                          matched_tracks \cup {best.max_track},
                          matched_detections,
                          Append(pairs, <<best.max_track, best.max_detection>>))

\* the greedy while-loop breaking on max_iou <= self.iou_threshold
RECURSIVE greedy_pairs_above_threshold(_, _, _, _, _, _)
greedy_pairs_above_threshold(matrix, nT, nD, matched_tracks, matched_detections, pairs) ==
    LET best == scan_max(matrix, nT, nD, matched_tracks, matched_detections, 1,
                         [max_iou |-> RatioZero, max_track |-> 0, max_detection |-> 0])
    IN  IF ~RatioGreater(best.max_iou, iou_threshold) THEN pairs
        ELSE greedy_pairs_above_threshold(matrix, nT, nD,
                          matched_tracks \cup {best.max_track},
                          matched_detections \cup {best.max_detection},
                          Append(pairs, <<best.max_track, best.max_detection>>))

\* the greedy while-loop: the committed (track index, detection index) pairs, in order
RECURSIVE greedy_pairs(_, _, _, _, _, _)
greedy_pairs(matrix, nT, nD, matched_tracks, matched_detections, pairs) ==
    LET best == scan_max(matrix, nT, nD, matched_tracks, matched_detections, 1,
                         [max_iou |-> RatioZero, max_track |-> 0, max_detection |-> 0])
    IN  IF RatioLess(best.max_iou, iou_threshold) THEN pairs
        ELSE greedy_pairs(matrix, nT, nD,
                          matched_tracks \cup {best.max_track},
                          matched_detections \cup {best.max_detection},
                          Append(pairs, <<best.max_track, best.max_detection>>))

\* the Track.update calls of the committed pairs, in commit order
RECURSIVE apply_pairs(_, _, _, _, _, _)
apply_pairs(ts, pairs, i, detections, frame_num, timestamp) ==
    IF i > Len(pairs) THEN ts
    ELSE apply_pairs(
            [ ts EXCEPT ![pairs[i][1]] =
                TrackUpdate(@, detections[pairs[i][2]], frame_num, timestamp) ],
            pairs, i + 1, detections, frame_num, timestamp)

\* _create_track without self.next_track_id += 1
create_track_same_id(st, detection, frame_num, timestamp) ==
    [ tracks |-> Append(st.tracks,
                        TrackUpdate(NewTrack(st.next_track_id), detection, frame_num, timestamp)),
      next_track_id |-> st.next_track_id ]

\* PersonTracker._create_track, on the pair (tracks, next_track_id)
create_track(st, detection, frame_num, timestamp) ==
    [ tracks |-> Append(st.tracks,
                        TrackUpdate(NewTrack(st.next_track_id), detection, frame_num, timestamp)),
      next_track_id |-> st.next_track_id + 1 ]

\* the loop over unmatched detections leaving after its first _create_track
RECURSIVE create_tracks_first_only(_, _, _, _, _, _)
create_tracks_first_only(st, detections, skip, d_idx, frame_num, timestamp) ==
    IF d_idx > Len(detections) THEN st
    ELSE IF d_idx \in skip
         THEN create_tracks_first_only(st, detections, skip, d_idx + 1, frame_num, timestamp)
         ELSE create_track(st, detections[d_idx], frame_num, timestamp)

\* _create_track for every detection whose index is not in skip, in list order
RECURSIVE create_tracks(_, _, _, _, _, _)
create_tracks(st, detections, skip, d_idx, frame_num, timestamp) ==
    IF d_idx > Len(detections) THEN st
    ELSE create_tracks(
            IF d_idx \in skip THEN st
            ELSE create_track(st, detections[d_idx], frame_num, timestamp),
            detections, skip, d_idx + 1, frame_num, timestamp)

\* PersonTracker._match_detections_to_tracks
match_detections_to_tracks(st, detections, frame_num, timestamp) ==
    LET nT == Len(st.tracks)
        nD == Len(detections)
        pairs == greedy_pairs(iou_matrix(st.tracks, detections), nT, nD, {}, {}, <<>>)
        matched_tracks == { pairs[i][1] : i \in 1..Len(pairs) }
        matched_detections == { pairs[i][2] : i \in 1..Len(pairs) }
        updated == apply_pairs(st.tracks, pairs, 1, detections, frame_num, timestamp)
        lost == [ t_idx \in 1..nT |->
                    IF t_idx \notin matched_tracks /\ updated[t_idx].is_active
                    THEN mark_lost(updated[t_idx])
                    ELSE updated[t_idx] ]
    IN  create_tracks([tracks |-> lost, next_track_id |-> st.next_track_id],
                      detections, matched_detections, 1, frame_num, timestamp)

\* current_time of _remove_old_tracks: a PersonTracker has no attribute
\* `timestamps`, so hasattr(self, 'timestamps') is False and the value is 0
current_time == 0

\* _remove_old_tracks without the is_active test
remove_old_tracks_restamping(ts, frame_num) ==
    [ i \in 1..Len(ts) |->
        IF /\ ts[i].frames_without_detection > max_age
           /\ ts[i].total_frames >= min_hits
        THEN mark_exited(ts[i], current_time, frame_num)
        ELSE ts[i] ]

\* _remove_old_tracks with >= max_age in place of > max_age
remove_old_tracks_at_max_age(ts, frame_num) ==
    [ i \in 1..Len(ts) |->
        IF /\ ts[i].frames_without_detection >= max_age
           /\ ts[i].is_active
           /\ ts[i].total_frames >= min_hits
        THEN mark_exited(ts[i], current_time, frame_num)
        ELSE ts[i] ]

\* PersonTracker._remove_old_tracks
remove_old_tracks(ts, frame_num) ==
    [ i \in 1..Len(ts) |->
        IF /\ ts[i].frames_without_detection > max_age
           /\ ts[i].is_active
           /\ ts[i].total_frames >= min_hits
        THEN mark_exited(ts[i], current_time, frame_num)
        ELSE ts[i] ]

\* the person filter of update()
RECURSIVE person_detections(_)
person_detections(detections) ==
    IF detections = <<>> THEN <<>>
    ELSE IF Head(detections).class_name = "person"
         THEN <<Head(detections)>> \o person_detections(Tail(detections))
         ELSE person_detections(Tail(detections))

IsActive(t) == t.is_active
IsCompleted(t) == ~t.is_active /\ t.total_frames >= min_hits

get_all_tracks == tracks
get_active_tracks == SelectSeq(tracks, IsActive)
get_completed_tracks == SelectSeq(tracks, IsCompleted)

\* PersonTracker.update(detections, timestamp); its return value is
\* get_active_tracks in the state it leaves
update(detections, timestamp) ==
    /\ frame_count < MaxFrames
    /\ LET frame_num == frame_count + 1
           persons == person_detections(detections)
           st0 == [tracks |-> tracks, next_track_id |-> next_track_id]
           st1 == IF Len(tracks) = 0
                  THEN create_tracks(st0, persons, {}, 1, frame_num, timestamp)
                  ELSE match_detections_to_tracks(st0, persons, frame_num, timestamp)
       IN  /\ frame_count' = frame_num
           /\ tracks' = remove_old_tracks(st1.tracks, frame_num)
           /\ next_track_id' = st1.next_track_id
           /\ call' = [detections |-> detections, timestamp |-> timestamp]
           /\ UNCHANGED <<min_hits, matching>>

Update ==
    \E detections \in DetectionBatches, dt \in TimeSteps :
        update(detections, call.timestamp + dt)

----------------------------------------------------------------------------
(* core/tracker.py: the while-loop of _match_detections_to_tracks, one iteration
   per step *)

MaxMatchSize == 2    \* detections per matching

\* the iou_threshold values given to the constructor, all above 0
PositiveThresholds == { Ratio(1, 10), Ratio(3, 10), Ratio(1, 1) }

\* no matching in progress
NoMatching ==
    [ pc |-> "none", tracks |-> <<>>, detections |-> <<>>, iou_threshold |-> RatioZero,
      iou_matrix |-> <<>>, matched_tracks |-> {}, matched_detections |-> {}, commits |-> 0 ]

\* the tracks a matching starts from: track k was seen once at boxes[k]; the
\* tracks whose index is in exited have been marked exited
RECURSIVE SeenTracks(_, _, _)
SeenTracks(boxes, exited, k) ==
    IF k > Len(boxes) THEN <<>>
    ELSE LET seen == TrackUpdate(NewTrack(k), Detection(boxes[k], "person"), 1, 1)
         IN  << IF k \in exited THEN mark_exited(seen, current_time, 1) ELSE seen >>
             \o SeenTracks(boxes, exited, k + 1)

\* the last boxes of the one or two tracks a matching starts from
MatchedBoxes == SeqsUpTo({BoxA, BoxB, BoxC}, 2) \ { <<>> }

\* _match_detections_to_tracks up to the while-loop: the matrix is filled and the
\* matched sets are empty
StartMatching ==
    \E boxes \in MatchedBoxes,
       exited \in { {}, {1} },
       detections \in SeqsUpTo({ Detection(b, "person") : b \in {BoxA, BoxB, BoxC} },
                               MaxMatchSize),
       threshold \in PositiveThresholds :
        LET ts == SeenTracks(boxes, exited, 1)
        IN  /\ matching.pc = "none"
            /\ matching' = [ pc |-> "loop", tracks |-> ts, detections |-> detections,
                             iou_threshold |-> threshold,
                             iou_matrix |-> iou_matrix(ts, detections),
                             matched_tracks |-> {}, matched_detections |-> {},
                             commits |-> 0 ]
            /\ UNCHANGED <<min_hits, tracks, next_track_id, frame_count, call>>
            /\ UNCHANGED <<alertVars, analyzerVars, serverVars>>

\* one iteration of "while True": the scan, then the break or the commit
MatchIteration ==
    LET best == scan_max(matching.iou_matrix, Len(matching.tracks),
                         Len(matching.detections), matching.matched_tracks,
                         matching.matched_detections, 1,
                         [max_iou |-> RatioZero, max_track |-> 0, max_detection |-> 0])
    IN  /\ matching.pc = "loop"
        /\ matching' =
              IF RatioLess(best.max_iou, matching.iou_threshold)
              THEN [ matching EXCEPT !.pc = "done" ]
              ELSE [ matching EXCEPT
                       !.tracks[best.max_track] =
                           TrackUpdate(@, matching.detections[best.max_detection], 2, 2),
                       !.matched_tracks = @ \cup {best.max_track},
                       !.matched_detections = @ \cup {best.max_detection},
                       !.commits = @ + 1 ]
        /\ UNCHANGED <<min_hits, tracks, next_track_id, frame_count, call>>
        /\ UNCHANGED <<alertVars, analyzerVars, serverVars>>

\* the loop was left and the method went on to its end
ReturnFromMatching ==
    /\ matching.pc = "done"
    /\ matching' = NoMatching
    /\ UNCHANGED <<min_hits, tracks, next_track_id, frame_count, call>>
    /\ UNCHANGED <<alertVars, analyzerVars, serverVars>>

TrackerInit ==
    /\ min_hits \in MinHitsChoices
    /\ tracks = <<>>
    /\ next_track_id = 1
    /\ frame_count = 0
    /\ call = [detections |-> <<>>, timestamp |-> 0]
    /\ matching = NoMatching

----------------------------------------------------------------------------
(* core/tracker.py: the derived properties of a Track *)

RECURSIVE SumSeq(_)
SumSeq(s) == IF s = <<>> THEN 0 ELSE Head(s) + SumSeq(Tail(s))

\* a stamp is falsy in Python when it is None or 0
Truthy(o) == ~IsNone(o) /\ Val(o) # 0

\* Track.duration
duration(t) ==
    IF Truthy(t.entry_time) /\ Truthy(t.exit_time)
    THEN Val(t.exit_time) - Val(t.entry_time)
    ELSE IF t.timestamps # <<>>
         THEN Last(t.timestamps) - t.timestamps[1]
         ELSE 0

\* Track.last_position
last_position(t) == IF t.positions # <<>> THEN Some(Last(t.positions)) ELSE None

\* np.var(xs) < limit for a list of n integers: mean(x^2) - mean(x)^2 < limit
VarianceBelow(xs, limit) ==
    LET n == Len(xs)
        squares == [i \in 1..n |-> xs[i] * xs[i]]
    IN  n * SumSeq(squares) - SumSeq(xs) * SumSeq(xs) < limit * n * n

\* Track.is_stationary
is_stationary(t) ==
    IF Len(t.positions) < 10 THEN FALSE
    ELSE LET recent_positions == SubSeq(t.positions, Len(t.positions) - 9, Len(t.positions))
             x_coords == [i \in 1..10 |-> recent_positions[i][1]]
             y_coords == [i \in 1..10 |-> recent_positions[i][2]]
         IN  VarianceBelow(x_coords, 50) /\ VarianceBelow(y_coords, 50)

----------------------------------------------------------------------------
(* core/alert_system.py: AlertType, AlertLevel, Alert *)

AlertType ==
    { "crowd_detected", "suspicious_behavior", "loitering", "security_object",
      "zone_violation", "high_activity", "no_activity" }

AlertLevel == { "info", "warning", "critical" }

\* Alert(...): resolved and resolved_at take their defaults
Alert(alert_id, alert_type, level, timestamp, message, details, location) ==
    [ alert_id |-> alert_id, alert_type |-> alert_type, level |-> level,
      timestamp |-> timestamp, message |-> message, details |-> details,
      location |-> location, resolved |-> FALSE, resolved_at |-> None ]

\* Alert.resolve, time.time() giving clock
resolve(a, clock) == [ a EXCEPT !.resolved = TRUE, !.resolved_at = Some(clock) ]

\* dict.get(key): None when the key is absent
DictGet(d, key) == IF key \in DOMAIN d THEN Some(d[key]) ELSE None

\* d[key] = value on a dict
DictSet(d, key, value) ==
    [ k \in DOMAIN d \cup {key} |-> IF k = key THEN value ELSE d[k] ]

EmptyDict == <<>>

----------------------------------------------------------------------------
(* core/alert_system.py: AlertSystem *)

crowd_threshold == 2             \* AlertSystem(crowd_threshold=2, ...)
loitering_time == 300            \* default loitering_time = 300.0
enable_logging == TRUE           \* default enable_logging = True

\* the fields of an AlertSystem that its methods read and write
AlertState ==
    [ alerts |-> alerts, active_alerts |-> active_alerts,
      alert_history |-> alert_history, total_alerts |-> total_alerts,
      alerts_by_type |-> alerts_by_type, alerts_log |-> alerts_log ]

\* AlertSystem._generate_alert_id: f"ALERT_{int(time.time() * 1000)}_{self.total_alerts}"
generate_alert_id(S, clock) == <<"ALERT", clock, S.total_alerts>>

\* the loop "for alert in self.active_alerts" of _check_crowd: the position of the
\* first unresolved crowd alert from position i on, 0 when there is none
RECURSIVE first_open_crowd(_, _)
first_open_crowd(S, i) ==
    IF i > Len(S.active_alerts) THEN 0
    ELSE IF /\ S.alerts[S.active_alerts[i]].alert_type = "crowd_detected"
            /\ ~S.alerts[S.active_alerts[i]].resolved
         THEN i
         ELSE first_open_crowd(S, i + 1)

\* _resolve_alerts_by_type without the "not alert.resolved" test
resolve_alerts_by_type_again(S, alert_type, clock) ==
    [ S EXCEPT !.alerts =
        [ o \in 1..Len(S.alerts) |->
            IF /\ \E i \in 1..Len(S.active_alerts) : S.active_alerts[i] = o
               /\ S.alerts[o].alert_type = alert_type
            THEN resolve(S.alerts[o], clock)
            ELSE S.alerts[o] ] ]

\* AlertSystem._resolve_alerts_by_type
resolve_alerts_by_type(S, alert_type, clock) ==
    [ S EXCEPT !.alerts =
        [ o \in 1..Len(S.alerts) |->
            IF /\ \E i \in 1..Len(S.active_alerts) : S.active_alerts[i] = o
               /\ S.alerts[o].alert_type = alert_type
               /\ ~S.alerts[o].resolved
            THEN resolve(S.alerts[o], clock)
            ELSE S.alerts[o] ] ]

\* _check_crowd that finds the open crowd alert but does not refresh its count
check_crowd_no_refresh(S, trks, timestamp, clock) ==
    LET people_count == Len(trks)
        i == first_open_crowd(S, 1)
    IN  IF people_count >= crowd_threshold
        THEN IF i # 0
             THEN [ S |-> S, alert |-> None, updated |-> <<>> ]
             ELSE [ S |-> S,
                    alert |-> Some(Alert(generate_alert_id(S, clock), "crowd_detected",
                                         "warning", timestamp,
                                         <<"Crowd detected: ", people_count, " people">>,
                                         [ people_count |-> people_count,
                                           threshold |-> crowd_threshold ],
                                         None)),
                    updated |-> <<>> ]
        ELSE [ S |-> resolve_alerts_by_type(S, "crowd_detected", clock),
               alert |-> None,
               updated |-> <<>> ]

\* AlertSystem._check_crowd: the state it leaves, the alert it returns (or None)
\* and the alerts it updated in place
check_crowd(S, trks, timestamp, clock) ==
    LET people_count == Len(trks)
        i == first_open_crowd(S, 1)
    IN  IF people_count >= crowd_threshold
        THEN IF i # 0
             THEN [ S |-> [ S EXCEPT !.alerts[S.active_alerts[i]].details =
                                         DictSet(@, "current_count", people_count) ],
                    alert |-> None,
                    updated |-> << S.active_alerts[i] >> ]
             ELSE [ S |-> S,
                    alert |-> Some(Alert(generate_alert_id(S, clock), "crowd_detected",
                                         "warning", timestamp,
                                         <<"Crowd detected: ", people_count, " people">>,
                                         [ people_count |-> people_count,
                                           threshold |-> crowd_threshold ],
                                         None)),
                    updated |-> <<>> ]
        ELSE [ S |-> resolve_alerts_by_type(S, "crowd_detected", clock),
               alert |-> None,
               updated |-> <<>> ]

\* an alert_exists test that never finds the earlier alert
alert_exists_never(S, track_id, alert_type) == FALSE

\* the alert_exists test of _check_loitering and _check_idle_behavior
alert_exists(S, track_id, alert_type) ==
    \E i \in 1..Len(S.active_alerts) :
        LET a == S.alerts[S.active_alerts[i]]
        IN  /\ DictGet(a.details, "track_id") = Some(track_id)
            /\ a.alert_type = alert_type
            /\ ~a.resolved

\* AlertSystem._check_loitering
RECURSIVE check_loitering(_, _, _, _)
check_loitering(S, trks, timestamp, clock) ==
    IF trks = <<>> THEN <<>>
    ELSE LET track == Head(trks)
             rest == check_loitering(S, Tail(trks), timestamp, clock)
         IN  IF duration(track) > loitering_time
                /\ ~alert_exists(S, track.track_id, "loitering")
             THEN << Alert(generate_alert_id(S, clock), "loitering", "info", timestamp,
                           <<"Person loitering: ID ", track.track_id>>,
                           [ track_id |-> track.track_id,
                             duration |-> duration(track),
                             threshold |-> loitering_time ],
                           Some([ position |-> last_position(track) ])) >> \o rest
             ELSE rest

\* AlertSystem._check_idle_behavior
RECURSIVE check_idle_behavior(_, _, _, _)
check_idle_behavior(S, trks, timestamp, clock) ==
    IF trks = <<>> THEN <<>>
    ELSE LET track == Head(trks)
             rest == check_idle_behavior(S, Tail(trks), timestamp, clock)
         IN  IF is_stationary(track) /\ track.idle_duration > 60
                /\ ~alert_exists(S, track.track_id, "suspicious_behavior")
             THEN << Alert(generate_alert_id(S, clock), "suspicious_behavior", "info",
                           timestamp,
                           <<"Idle behavior detected: ID ", track.track_id>>,
                           [ track_id |-> track.track_id,
                             idle_duration |-> track.idle_duration,
                             position |-> last_position(track) ],
                           None) >> \o rest
             ELSE rest

\* the callback loop without try/except: the first raising callback ends it
RECURSIVE trigger_callbacks_unguarded(_, _, _, _)
trigger_callbacks_unguarded(cbs, i, o, raising) ==
    IF i > Len(cbs) THEN [ invoked |-> <<>>, raised |-> FALSE ]
    ELSE LET this == [ index |-> i, callback |-> cbs[i], alert |-> o,
                       raises |-> i \in raising ]
             rest == trigger_callbacks_unguarded(cbs, i + 1, o, raising)
         IN  IF i \in raising
             THEN [ invoked |-> << this >>, raised |-> TRUE ]
             ELSE [ invoked |-> << this >> \o rest.invoked, raised |-> rest.raised ]

\* the callback loop run over reversed(self.callbacks)
RECURSIVE trigger_callbacks_reversed(_, _, _, _)
trigger_callbacks_reversed(cbs, i, o, raising) ==
    IF i > Len(cbs) THEN [ invoked |-> <<>>, raised |-> FALSE ]
    ELSE LET rest == trigger_callbacks_reversed(cbs, i + 1, o, raising)
         IN  [ invoked |-> rest.invoked \o << [ index |-> i, callback |-> cbs[i],
                                                alert |-> o, raises |-> i \in raising ] >>,
               raised |-> rest.raised ]

\* the callback loop of _process_alert for the alert object o: callback i is
\* called with o and raises an Exception iff i is in raising; the except clause
\* swallows it and the loop goes on
RECURSIVE trigger_callbacks(_, _, _, _)
trigger_callbacks(cbs, i, o, raising) ==
    IF i > Len(cbs) THEN [ invoked |-> <<>>, raised |-> FALSE ]
    ELSE LET rest == trigger_callbacks(cbs, i + 1, o, raising)
         IN  [ invoked |-> << [ index |-> i, callback |-> cbs[i], alert |-> o,
                                raises |-> i \in raising ] >> \o rest.invoked,
               raised |-> rest.raised ]

\* _process_alert without self.total_alerts += 1
process_alert_uncounted(S, alert, cbs, raising) ==
    LET o == Len(S.alerts) + 1
        triggered == trigger_callbacks(cbs, 1, o, raising)
    IN  [ S |-> [ S EXCEPT
                    !.alerts = Append(@, alert),
                    !.active_alerts = Append(@, o),
                    !.alert_history = Append(@, o),
                    !.alerts_by_type[alert.alert_type] = @ + 1,
                    !.alerts_log = IF enable_logging THEN Append(@, o) ELSE @ ],
          alert |-> o,
          invoked |-> triggered.invoked,
          raised |-> triggered.raised ]

\* AlertSystem._process_alert: the state it leaves, the callbacks it invoked and
\* whether an exception leaves it
process_alert(S, alert, cbs, raising) ==
    LET o == Len(S.alerts) + 1
        triggered == trigger_callbacks(cbs, 1, o, raising)
    IN  [ S |-> [ S EXCEPT
                    !.alerts = Append(@, alert),
                    !.active_alerts = Append(@, o),
                    !.alert_history = Append(@, o),
                    !.total_alerts = @ + 1,
                    !.alerts_by_type[alert.alert_type] = @ + 1,
                    !.alerts_log = IF enable_logging THEN Append(@, o) ELSE @ ],
          alert |-> o,
          invoked |-> triggered.invoked,
          raised |-> triggered.raised ]

\* the loop "for alert in new_alerts: self._process_alert(alert)" of check_alerts;
\* an exception leaving _process_alert ends the loop and the call
RECURSIVE process_alerts(_, _, _, _)
process_alerts(S, new_alerts, cbs, raising) ==
    IF new_alerts = <<>>
    THEN [ S |-> S, ret |-> <<>>, invoked |-> <<>>, raised |-> FALSE ]
    ELSE LET first == process_alert(S, Head(new_alerts), cbs, raising)
             rest == process_alerts(first.S, Tail(new_alerts), cbs, raising)
         IN  IF first.raised
             THEN [ S |-> first.S, ret |-> <<>>, invoked |-> first.invoked, raised |-> TRUE ]
             ELSE [ S |-> rest.S, ret |-> << first.alert >> \o rest.ret,
                    invoked |-> first.invoked \o rest.invoked, raised |-> rest.raised ]

\* AlertSystem.check_alerts as a function of the state
check_alerts_result(S, active_tracks, timestamp, clock, cbs, raising) ==
    LET crowd == check_crowd(S, active_tracks, timestamp, clock)
        S1 == crowd.S
        crowd_alerts == IF IsNone(crowd.alert) THEN <<>> ELSE << Val(crowd.alert) >>
        loitering_alerts == check_loitering(S1, active_tracks, timestamp, clock)
        idle_alerts == check_idle_behavior(S1, active_tracks, timestamp, clock)
        new_alerts == crowd_alerts \o loitering_alerts \o idle_alerts
        processed == process_alerts(S1, new_alerts, cbs, raising)
    IN  [ S |-> processed.S, ret |-> processed.ret, invoked |-> processed.invoked,
          raised |-> processed.raised, updated |-> crowd.updated ]

\* AlertSystem.create_custom_alert as a function of the state; timestamp = time.time()
create_custom_alert_result(S, alert_type, level, message, details, location, clock, cbs, raising) ==
    LET alert == Alert(generate_alert_id(S, clock), alert_type, level, clock, message,
                       IF IsNone(details) THEN EmptyDict ELSE Val(details), location)
        processed == process_alert(S, alert, cbs, raising)
    IN  [ S |-> processed.S,
          ret |-> IF processed.raised THEN <<>> ELSE << processed.alert >>,
          invoked |-> processed.invoked, raised |-> processed.raised, updated |-> <<>> ]

\* the list comprehension of clear_resolved_alerts
RECURSIVE unresolved_only(_, _)
unresolved_only(S, list) ==
    IF list = <<>> THEN <<>>
    ELSE IF ~S.alerts[Head(list)].resolved
         THEN << Head(list) >> \o unresolved_only(S, Tail(list))
         ELSE unresolved_only(S, Tail(list))

\* AlertSystem.get_active_alerts(alert_type), alert_type = None for no filter
RECURSIVE get_active_alerts(_, _, _)
get_active_alerts(S, list, alert_type) ==
    IF list = <<>> THEN <<>>
    ELSE IF /\ ~S.alerts[Head(list)].resolved
            /\ (IsNone(alert_type) \/ S.alerts[Head(list)].alert_type = Val(alert_type))
         THEN << Head(list) >> \o get_active_alerts(S, Tail(list), alert_type)
         ELSE get_active_alerts(S, Tail(list), alert_type)

\* the list comprehension "[a for a in alerts if a.alert_type == alert_type]"
RECURSIVE of_type(_, _, _)
of_type(S, list, alert_type) ==
    IF list = <<>> THEN <<>>
    ELSE IF S.alerts[Head(list)].alert_type = alert_type
         THEN << Head(list) >> \o of_type(S, Tail(list), alert_type)
         ELSE of_type(S, Tail(list), alert_type)

\* the Python slice list[start:]: a negative start counts from the end, and a
\* start outside the list is clamped to it
SliceFrom(list, start) ==
    LET n == Len(list)
        first == IF start < 0 THEN Max(n + start, 0) ELSE Min(start, n)
    IN  SubSeq(list, first + 1, n)

\* AlertSystem.get_alert_history(limit, alert_type), alert_type = None for no filter
get_alert_history(S, limit, alert_type) ==
    LET filtered == IF ~IsNone(alert_type)
                    THEN of_type(S, S.alert_history, Val(alert_type))
                    ELSE S.alert_history
    IN  SliceFrom(filtered, 0 - limit)

----------------------------------------------------------------------------
(* The callers of AlertSystem *)

MaxAlerts == 2       \* Alert objects stored per AlertSystem

\* the instants at which time.time() is read, in milliseconds
ClockValues == {0, 1}

\* the callables registered: one that returns and one that raises an Exception
CallbackPool == { "notify", "faulty" }

\* the positions of cbs whose callable raises when called
Raising(cbs) == { i \in 1..Len(cbs) : cbs[i] = "faulty" }

\* a track after n detections of BoxA, one every step seconds from second 1 on
RECURSIVE ObservedTrack(_, _, _)
ObservedTrack(id, n, step) ==
    IF n = 0 THEN NewTrack(id)
    ELSE TrackUpdate(ObservedTrack(id, n - 1, step),
                     Detection(BoxA, "person"), n, 1 + (n - 1) * step)

\* the shapes in which a track is handed to check_alerts:
\*   "short"  duration 300, not above loitering_time
\*   "long"   duration 301, above loitering_time
\*   "idle"   ten samples at one place, idle_duration 61 set by the caller
TrackShapes == { "short", "long", "idle" }

ShapedTrack(id, shape) ==
    CASE shape = "short" -> ObservedTrack(id, 2, 300)
      [] shape = "long"  -> ObservedTrack(id, 2, 301)
      [] shape = "idle"  -> [ ObservedTrack(id, 10, 1) EXCEPT !.idle_duration = 61 ]

\* the active-track lists: tracks of one tracker in id order; tracks 1 and 2 come
\* in every shape, track 3 is a passer-by
ShapeChoices ==
    { shapes \in [1..3 -> TrackShapes \cup {"absent"}] : shapes[3] \in {"absent", "short"} }

RECURSIVE TrackList(_, _)
TrackList(shapes, id) ==
    IF id \notin DOMAIN shapes THEN <<>>
    ELSE (IF shapes[id] = "absent" THEN <<>> ELSE << ShapedTrack(id, shapes[id]) >>)
         \o TrackList(shapes, id + 1)

TrackLists == { TrackList(shapes, 1) : shapes \in ShapeChoices }

\* video seconds passed as the timestamp argument of check_alerts
CheckTimestamps == {10}

\* the record kept of an AlertSystem call: op, the number of tracks given, the ids
\* of the given tracks that are over loitering_time (over) and that are stationary
\* with idle_duration above 60 (idle), the list returned (ret), the callback
\* invocations in order (invoked), whether an exception left the call (raised) and
\* the alerts updated in place (updated)
NoCall ==
    [ op |-> "none", count |-> 0, over |-> {}, idle |-> {}, ret |-> <<>>,
      invoked |-> <<>>, raised |-> FALSE, updated |-> <<>> ]

SetAlertState(S) ==
    /\ alerts' = S.alerts
    /\ active_alerts' = S.active_alerts
    /\ alert_history' = S.alert_history
    /\ total_alerts' = S.total_alerts
    /\ alerts_by_type' = S.alerts_by_type
    /\ alerts_log' = S.alerts_log

\* check_alerts(active_tracks, timestamp, frame_number)
CheckAlerts ==
    \E active_tracks \in TrackLists, timestamp \in CheckTimestamps :
        LET r == check_alerts_result(AlertState, active_tracks, timestamp, now,
                                     callbacks, Raising(callbacks))
        IN  /\ Len(r.S.alerts) <= MaxAlerts
            /\ SetAlertState(r.S)
            /\ acall' = [ op |-> "check_alerts", count |-> Len(active_tracks),
                          over |-> { active_tracks[k].track_id :
                                       k \in { n \in 1..Len(active_tracks) :
                                                 duration(active_tracks[n]) > loitering_time } },
                          idle |-> { active_tracks[k].track_id :
                                       k \in { n \in 1..Len(active_tracks) :
                                                 /\ is_stationary(active_tracks[n])
                                                 /\ active_tracks[n].idle_duration > 60 } },
                          ret |-> r.ret, invoked |-> r.invoked,
                          raised |-> r.raised, updated |-> r.updated ]
            /\ UNCHANGED <<callbacks, now>>
            /\ UNCHANGED <<trackerVars, analyzerVars, serverVars>>

\* the custom alerts raised by callers
CustomAlerts ==
    { [ alert_type |-> "security_object", level |-> "critical", details |-> None ],
      [ alert_type |-> "crowd_detected", level |-> "warning",
        details |-> Some([ zone |-> 1 ]) ] }

\* create_custom_alert(alert_type, level, message, details, location)
CreateCustomAlert ==
    \E custom \in CustomAlerts :
        LET r == create_custom_alert_result(AlertState, custom.alert_type, custom.level,
                                            <<"custom">>, custom.details, None, now,
                                            callbacks, Raising(callbacks))
        IN  /\ Len(r.S.alerts) <= MaxAlerts
            /\ SetAlertState(r.S)
            /\ acall' = [ NoCall EXCEPT !.op = "create_custom_alert",
                                         !.ret = r.ret, !.invoked = r.invoked,
                                         !.raised = r.raised ]
            /\ UNCHANGED <<callbacks, now>>
            /\ UNCHANGED <<trackerVars, analyzerVars, serverVars>>

\* clear_resolved_alerts()
ClearResolvedAlerts ==
    /\ active_alerts' = unresolved_only(AlertState, active_alerts)
    /\ acall' = [ NoCall EXCEPT !.op = "clear_resolved_alerts" ]
    /\ UNCHANGED <<alerts, alert_history, callbacks, total_alerts, alerts_by_type,
                   alerts_log, now>>
    /\ UNCHANGED <<trackerVars, analyzerVars, serverVars>>

\* reset(): the log file and the registered callbacks stay
Reset ==
    /\ active_alerts' = <<>>
    /\ alert_history' = <<>>
    /\ total_alerts' = 0
    /\ alerts_by_type' = [ t \in AlertType |-> 0 ]
    /\ acall' = [ NoCall EXCEPT !.op = "reset" ]
    /\ UNCHANGED <<alerts, callbacks, alerts_log, now>>
    /\ UNCHANGED <<trackerVars, analyzerVars, serverVars>>

\* register_callback(callback), each callable registered once
RegisterCallback ==
    \E callback \in CallbackPool :
        /\ \A i \in 1..Len(callbacks) : callbacks[i] # callback
        /\ callbacks' = Append(callbacks, callback)
        /\ acall' = [ NoCall EXCEPT !.op = "register_callback" ]
        /\ UNCHANGED <<alerts, active_alerts, alert_history, total_alerts,
                       alerts_by_type, alerts_log, now>>
        /\ UNCHANGED <<trackerVars, analyzerVars, serverVars>>

\* time passes between two calls
Tick ==
    /\ now' \in { c \in ClockValues : c > now }
    /\ UNCHANGED <<alerts, active_alerts, alert_history, callbacks, total_alerts,
                   alerts_by_type, alerts_log, acall>>
    /\ UNCHANGED <<trackerVars, analyzerVars, serverVars>>

\* the limit and alert_type arguments given to get_alert_history
HistoryLimits == 0..3
HistoryFilters == { None, Some("crowd_detected"), Some("loitering") }

\* get_alert_history(limit, alert_type): the record of the call keeps both arguments
GetAlertHistory ==
    \E limit \in HistoryLimits, alert_type \in HistoryFilters :
        /\ acall' = [ op |-> "get_alert_history", count |-> 0, over |-> {}, idle |-> {},
                      ret |-> get_alert_history(AlertState, limit, alert_type),
                      invoked |-> <<>>, raised |-> FALSE, updated |-> <<>>,
                      limit |-> limit, alert_type |-> alert_type ]
        /\ UNCHANGED <<alerts, active_alerts, alert_history, callbacks, total_alerts,
                       alerts_by_type, alerts_log, now>>
        /\ UNCHANGED <<trackerVars, analyzerVars, serverVars>>

\* AlertSystem.__init__
AlertInit ==
    /\ alerts = <<>>
    /\ active_alerts = <<>>
    /\ alert_history = <<>>
    /\ callbacks = <<>>
    /\ total_alerts = 0
    /\ alerts_by_type = [ t \in AlertType |-> 0 ]
    /\ alerts_log = <<>>
    /\ now = 0
    /\ acall = NoCall

----------------------------------------------------------------------------
(* core/config.py: zones and thresholds of the behaviour analysis *)

\* zone definitions as fractions of the frame
ENTRY_ZONE ==
    [ x_start |-> Ratio(0, 10), x_end |-> Ratio(3, 10),
      y_start |-> Ratio(0, 10), y_end |-> Ratio(10, 10) ]

EXIT_ZONE ==
    [ x_start |-> Ratio(7, 10), x_end |-> Ratio(10, 10),
      y_start |-> Ratio(0, 10), y_end |-> Ratio(10, 10) ]

CHECKOUT_ZONE ==
    [ x_start |-> Ratio(4, 10), x_end |-> Ratio(6, 10),
      y_start |-> Ratio(7, 10), y_end |-> Ratio(10, 10) ]

IDLE_TIME_THRESHOLD == 5         \* seconds
BROWSING_TIME_THRESHOLD == 3     \* seconds

\* the timestamps of analysed tracks count ticks of 1/TicksPerSecond second
\* (timestamp = frame_num / fps of a video processed at 2 frames per second)
TicksPerSecond == 2

\* a time in ticks as the float number of seconds it stands for
Seconds(ticks) == Ratio(ticks, TicksPerSecond)

----------------------------------------------------------------------------
(* core/behavior_analyzer.py: BehaviorType, ZoneDetector *)

BehaviorType ==
    { "window_shopping", "browsing", "purchasing", "idle", "passing_through" }

\* int(ratio * size) for a ratio >= 0
IntOfProduct(ratio, size) == (ratio[1] * size) \div ratio[2]

\* ZoneDetector._calculate_zone_pixels
calculate_zone_pixels(self, zone_config) ==
    [ x_min |-> IntOfProduct(zone_config.x_start, self.frame_width),
      x_max |-> IntOfProduct(zone_config.x_end, self.frame_width),
      y_min |-> IntOfProduct(zone_config.y_start, self.frame_height),
      y_max |-> IntOfProduct(zone_config.y_end, self.frame_height) ]

\* ZoneDetector.point_in_zone
point_in_zone(point, zone) ==
    /\ zone.x_min <= point[1] /\ point[1] <= zone.x_max
    /\ zone.y_min <= point[2] /\ point[2] <= zone.y_max

\* the zone configuration of core/config.py as imported by the module
ConfiguredZones ==
    [ ENTRY_ZONE |-> ENTRY_ZONE, EXIT_ZONE |-> EXIT_ZONE, CHECKOUT_ZONE |-> CHECKOUT_ZONE ]

\* ZoneDetector(frame_width, frame_height) under a zone configuration
ZoneDetector(frame_width, frame_height, config) ==
    LET self == [ frame_width |-> frame_width, frame_height |-> frame_height ]
    IN  [ frame_width |-> frame_width, frame_height |-> frame_height,
          entry_zone |-> calculate_zone_pixels(self, config.ENTRY_ZONE),
          exit_zone |-> calculate_zone_pixels(self, config.EXIT_ZONE),
          checkout_zone |-> calculate_zone_pixels(self, config.CHECKOUT_ZONE) ]

\* get_zone_name testing the checkout zone first
get_zone_name_checkout_first(self, point) ==
    IF point_in_zone(point, self.checkout_zone) THEN "checkout"
    ELSE IF point_in_zone(point, self.entry_zone) THEN "entry"
    ELSE IF point_in_zone(point, self.exit_zone) THEN "exit"
    ELSE "main_area"

\* ZoneDetector.get_zone_name
get_zone_name(self, point) ==
    IF point_in_zone(point, self.entry_zone) THEN "entry"
    ELSE IF point_in_zone(point, self.exit_zone) THEN "exit"
    ELSE IF point_in_zone(point, self.checkout_zone) THEN "checkout"
    ELSE "main_area"

----------------------------------------------------------------------------
(* core/tracker.py: Track.movement_distance *)

\* np.sqrt of a perfect square
Sqrt(n) == CHOOSE r \in 0..n : r * r = n

\* Track.movement_distance
RECURSIVE path_length(_, _)
path_length(positions, i) ==
    IF i > Len(positions) THEN 0
    ELSE LET dx == positions[i][1] - positions[i - 1][1]
             dy == positions[i][2] - positions[i - 1][2]
         IN  Sqrt(dx * dx + dy * dy) + path_length(positions, i + 1)

movement_distance(t) ==
    IF Len(t.positions) < 2 THEN 0 ELSE path_length(t.positions, 2)

----------------------------------------------------------------------------
(* core/behavior_analyzer.py: BehaviorAnalyzer *)

\* BehaviorAnalyzer(frame_width, frame_height, fps): the fields analyze_track reads
BehaviorAnalyzer(frame_width, frame_height, fps) ==
    [ frame_width |-> frame_width, frame_height |-> frame_height, fps |-> fps,
      zone_detector |-> ZoneDetector(frame_width, frame_height, ConfiguredZones) ]

\* _analyze_zones looking at the last position only
analyze_zones_last_only(self, track) ==
    { get_zone_name(self.zone_detector, track.positions[i]) : i \in {Len(track.positions)} }

\* BehaviorAnalyzer._analyze_zones: the set of zone names of the positions
analyze_zones(self, track) ==
    { get_zone_name(self.zone_detector, track.positions[i]) : i \in 1..Len(track.positions) }

\* BehaviorAnalyzer._check_if_stationary: np.std(...) < 20 is np.var(...) < 400
check_if_stationary(track) ==
    IF Len(track.positions) < 10 THEN FALSE
    ELSE LET check_frames == Min(30, Len(track.positions))
             recent_positions == SubSeq(track.positions,
                                        Len(track.positions) - check_frames + 1,
                                        Len(track.positions))
             x_coords == [i \in 1..check_frames |-> recent_positions[i][1]]
             y_coords == [i \in 1..check_frames |-> recent_positions[i][2]]
         IN  VarianceBelow(x_coords, 20 * 20) /\ VarianceBelow(y_coords, 20 * 20)

\* f"{x:.1f}" of a float x >= 0 given as a ratio: x rounded to tenths
FormatTenths(x) == <<(20 * x[1] + x[2]) \div (2 * x[2]), "tenths">>

\* movement_distance / duration if duration > 0 else 0
avg_movement(distance, duration_s) ==
    IF duration_s[1] > 0 THEN Ratio(distance * duration_s[2], duration_s[1]) ELSE RatioZero

\* _determine_behavior with duration > BROWSING_TIME_THRESHOLD as its browsing test
determine_behavior_strict(duration_s, distance, zones_visited, visited_checkout, stationary, track) ==
    IF visited_checkout
    THEN [ type |-> "purchasing", confidence |-> Ratio(90, 100),
           details |-> <<"Customer visited checkout area">> ]
    ELSE IF stationary /\ RatioGreater(duration_s, Ratio(IDLE_TIME_THRESHOLD, 1))
    THEN [ type |-> "idle", confidence |-> Ratio(85, 100),
           details |-> <<"Person stationary for ", FormatTenths(duration_s), "s">> ]
    ELSE IF RatioLess(duration_s, Ratio(3, 1)) /\ distance < 100
    THEN [ type |-> "passing_through", confidence |-> Ratio(80, 100),
           details |-> <<"Quick transit through store">> ]
    ELSE IF RatioGreater(duration_s, Ratio(BROWSING_TIME_THRESHOLD, 1))
    THEN IF RatioGreater(avg_movement(distance, duration_s), Ratio(10, 1))
         THEN [ type |-> "browsing", confidence |-> Ratio(85, 100),
                details |-> <<"Active browsing for ", FormatTenths(duration_s),
                              "s, moved ", distance, "px">> ]
         ELSE [ type |-> "browsing", confidence |-> Ratio(75, 100),
                details |-> <<"Browsing with limited movement for ",
                              FormatTenths(duration_s), "s">> ]
    ELSE [ type |-> "window_shopping", confidence |-> Ratio(80, 100),
           details |-> <<"Brief visit of ", FormatTenths(duration_s),
                         "s, possibly window shopping">> ]

\* BehaviorAnalyzer._determine_behavior; duration_s in seconds
determine_behavior(duration_s, distance, zones_visited, visited_checkout, stationary, track) ==
    IF visited_checkout
    THEN [ type |-> "purchasing", confidence |-> Ratio(90, 100),
           details |-> <<"Customer visited checkout area">> ]
    ELSE IF stationary /\ RatioGreater(duration_s, Ratio(IDLE_TIME_THRESHOLD, 1))
    THEN [ type |-> "idle", confidence |-> Ratio(85, 100),
           details |-> <<"Person stationary for ", FormatTenths(duration_s), "s">> ]
    ELSE IF RatioLess(duration_s, Ratio(3, 1)) /\ distance < 100
    THEN [ type |-> "passing_through", confidence |-> Ratio(80, 100),
           details |-> <<"Quick transit through store">> ]
    ELSE IF ~RatioLess(duration_s, Ratio(BROWSING_TIME_THRESHOLD, 1))
    THEN IF RatioGreater(avg_movement(distance, duration_s), Ratio(10, 1))
         THEN [ type |-> "browsing", confidence |-> Ratio(85, 100),
                details |-> <<"Active browsing for ", FormatTenths(duration_s),
                              "s, moved ", distance, "px">> ]
         ELSE [ type |-> "browsing", confidence |-> Ratio(75, 100),
                details |-> <<"Browsing with limited movement for ",
                              FormatTenths(duration_s), "s">> ]
    ELSE [ type |-> "window_shopping", confidence |-> Ratio(80, 100),
           details |-> <<"Brief visit of ", FormatTenths(duration_s),
                         "s, possibly window shopping">> ]

\* the dict analyze_track returns for a track with fewer than 5 positions
insufficient_data(track) ==
    [ track_id |-> track.track_id,
      behavior |-> "passing_through",
      confidence |-> Ratio(50, 100),
      details |-> <<"Insufficient tracking data">>,
      duration |-> Seconds(duration(track)),
      zones_visited |-> {},
      visited_checkout |-> FALSE,
      made_purchase |-> FALSE,
      movement_distance |-> movement_distance(track),
      is_stationary |-> FALSE,
      entry_time |-> track.entry_time,
      exit_time |-> track.exit_time ]

\* the dict analyze_track returns for a track with at least 5 positions
full_analysis(self, track) ==
    LET zones_visited == analyze_zones(self, track)
        visited_checkout == "checkout" \in zones_visited
        duration_s == Seconds(duration(track))
        distance == movement_distance(track)
        stationary == check_if_stationary(track)
        behavior == determine_behavior(duration_s, distance, zones_visited,
                                       visited_checkout, stationary, track)
    IN  [ track_id |-> track.track_id,
          behavior |-> behavior.type,
          confidence |-> behavior.confidence,
          duration |-> duration_s,
          zones_visited |-> zones_visited,
          visited_checkout |-> visited_checkout,
          made_purchase |-> visited_checkout,
          movement_distance |-> distance,
          is_stationary |-> stationary,
          entry_time |-> track.entry_time,
          exit_time |-> track.exit_time,
          details |-> behavior.details ]

\* analyze_track without the test on the number of positions
analyze_track_unchecked(self, track) == full_analysis(self, track)

\* analyze_track that words its details after the track's id
analyze_track_naming_id(self, track) ==
    IF Len(track.positions) < 5
    THEN insufficient_data(track)
    ELSE [ full_analysis(self, track) EXCEPT !.details = Append(@, track.track_id) ]

\* BehaviorAnalyzer.analyze_track (the uuid entry of the dict left out)
analyze_track(self, track) ==
    IF Len(track.positions) < 5
    THEN insufficient_data(track)
    ELSE full_analysis(self, track)

----------------------------------------------------------------------------
(* The tracks handed to analyze_track *)

MaxAnalyses == 2     \* analyze_track() calls explored per analyzer

\* a person detection whose box is centred at point
DetectionAt(point) ==
    Detection(<<point[1] - 10, point[2] - 10, point[1] + 10, point[2] + 10>>, "person")

\* the k-th position of a walk of a kind, in a 1920 x 1080 frame:
\*   "still"     standing in the main area
\*   "jitter"    swaying by 20 px: x-variance 100 over any even number of samples
\*   "walk"      40 px a sample through the main area
\*   "stroll"    5 px a sample through the main area
\*   "checkout"  standing in the main area, the second sample in the checkout zone
\*   "till"      standing in the checkout zone
\*   "arrive"    two samples at one place, the following ones 200 px further
Point(kind, k) ==
    CASE kind = "still"    -> <<800, 100>>
      [] kind = "jitter"   -> <<800 + 20 * (k % 2), 100>>
      [] kind = "walk"     -> <<600 + 40 * k, 100>>
      [] kind = "stroll"   -> <<600 + 5 * k, 100>>
      [] kind = "checkout" -> IF k = 2 THEN <<800, 760>> ELSE <<800, 700>>
      [] kind = "till"     -> <<800, 800>>
      [] kind = "arrive"   -> IF k <= 2 THEN <<1000, 100>> ELSE <<1200, 100>>

\* the track after n updates along a walk, one every step ticks from tick start on
RECURSIVE PathTrack(_, _, _, _, _)
PathTrack(id, kind, n, step, start) ==
    IF n = 0 THEN NewTrack(id)
    ELSE TrackUpdate(PathTrack(id, kind, n - 1, step, start),
                     DetectionAt(Point(kind, n)), n, start + (n - 1) * step)

\* the walks analysed: kind, number of samples, ticks between samples
AnalyzedShapes ==
    { <<"still", 0, 1>>, <<"still", 4, 1>>, <<"checkout", 4, 1>>,
      <<"still", 5, 1>>, <<"walk", 5, 1>>, <<"walk", 5, 2>>, <<"stroll", 5, 2>>,
      <<"stroll", 7, 1>>, <<"still", 10, 2>>, <<"still", 11, 1>>,
      <<"jitter", 10, 2>>, <<"arrive", 12, 2>>,
      <<"checkout", 5, 1>>, <<"checkout", 10, 2>>, <<"till", 10, 2>> }

\* the walks analysed after the track has exited
CompletedShapes == { <<"walk", 5, 1>>, <<"still", 10, 2>> }

\* tracks still active, two ids per walk
ActiveAnalyzed ==
    { PathTrack(id, sh[1], sh[2], sh[3], 1) : id \in {1, 2}, sh \in AnalyzedShapes }

\* tracks as _remove_old_tracks leaves them (exit_time = current_time), and tracks
\* exited by mark_exited(timestamp, frame) four ticks after their last sample,
\* first seen at tick 1 or in the frame of tick 0
CompletedAnalyzed ==
    { mark_exited(PathTrack(1, sh[1], sh[2], sh[3], 1), current_time, sh[2] + 2) :
        sh \in CompletedShapes }
    \cup { mark_exited(PathTrack(1, sh[1], sh[2], sh[3], start),
                       start + (sh[2] - 1) * sh[3] + 4, sh[2] + 2) :
             sh \in CompletedShapes, start \in {0, 1} }

AnalyzedTracks == ActiveAnalyzed \cup CompletedAnalyzed

\* analyze_track(track) on the analyzer
AnalyzeTrack ==
    \E track \in AnalyzedTracks :
        /\ Len(analyses) < MaxAnalyses
        /\ analyses' = Append(analyses, [ track |-> track,
                                          result |-> analyze_track(analyzer, track) ])
        /\ UNCHANGED <<analyzer, summary_call, zones_config, zone_detector, zone_call>>
        /\ UNCHANGED <<trackerVars, alertVars, serverVars>>

\* BehaviorAnalyzer(width, height, fps) as VideoProcessor builds it
AnalyzerInit ==
    /\ analyzer = BehaviorAnalyzer(1920, 1080, TicksPerSecond)
    /\ analyses = <<>>
    /\ summary_call = [ op |-> "none", analyzed_tracks |-> <<>>, summary |-> EmptyDict ]

----------------------------------------------------------------------------
(* core/behavior_analyzer.py: BehaviorAnalyzer.generate_summary *)

\* dict.get(key, default)
DictGetOr(d, key, default) == IF key \in DOMAIN d THEN d[key] ELSE default

\* the sum of a list of float ratios, exact
RECURSIVE RatioSum(_)
RatioSum(rs) ==
    IF rs = <<>> THEN RatioZero
    ELSE LET rest == RatioSum(Tail(rs))
             r == Head(rs)
         IN  Ratio(r[1] * rest[2] + rest[1] * r[2], r[2] * rest[2])

\* round(x, 2) of a float x >= 0 given as a ratio, in hundredths
RoundHundredths(x) == Ratio((200 * x[1] + x[2]) \div (2 * x[2]), 100)

\* the duration generate_summary reads from a result: "duration", else
\* "visit_duration", else 0.0
safe_duration(t) ==
    IF "duration" \in DOMAIN t THEN t.duration
    ELSE DictGetOr(t, "visit_duration", RatioZero)

\* the behavior label generate_summary reads from a result
normalized_behavior(t) == DictGetOr(t, "behavior", "unknown")

\* visited_checkout_flag of a result: its visited_checkout entry, or "checkout"
\* among its zones_visited
visited_checkout_flag(t) ==
    \/ DictGetOr(t, "visited_checkout", FALSE)
    \/ "checkout" \in DictGetOr(t, "zones_visited", {})

\* the test under which the loop of generate_summary counts a purchaser
is_purchaser(t) ==
    \/ normalized_behavior(t) = "purchasing"
    \/ DictGetOr(t, "made_purchase", FALSE)
    \/ visited_checkout_flag(t)

\* the number of positions of a list whose element passes a test
CountWhere(list, Test(_)) == Cardinality({ i \in 1..Len(list) : Test(list[i]) })

\* Counter(normalized_behaviors)
behavior_counts(analyzed_tracks) ==
    [ b \in { normalized_behavior(analyzed_tracks[i]) : i \in 1..Len(analyzed_tracks) } |->
        Cardinality({ i \in 1..Len(analyzed_tracks) :
                        normalized_behavior(analyzed_tracks[i]) = b }) ]

\* the summary generate_summary returns for an empty list
empty_summary ==
    [ total_visitors |-> 0, total_customers |-> 0, window_shoppers |-> 0,
      browsers |-> 0, purchasers |-> 0, passing_through |-> 0, idle |-> 0,
      conversion_rate |-> RatioZero, avg_visit_duration |-> RatioZero,
      total_checkout_visitors |-> 0, behavior_distribution |-> EmptyDict ]

\* the summary generate_summary returns for a non-empty list
non_empty_summary(analyzed_tracks) ==
    LET total_visitors == Len(analyzed_tracks)
        durations == [ i \in 1..total_visitors |-> safe_duration(analyzed_tracks[i]) ]
        counts == behavior_counts(analyzed_tracks)
        purchasers == CountWhere(analyzed_tracks, is_purchaser)
    IN  [ total_visitors |-> total_visitors,
          total_customers |-> purchasers,
          window_shoppers |-> DictGetOr(counts, "window_shopping", 0),
          browsers |-> DictGetOr(counts, "browsing", 0),
          purchasers |-> purchasers,
          passing_through |-> DictGetOr(counts, "passing_through", 0),
          idle |-> DictGetOr(counts, "idle", 0),
          conversion_rate |-> RoundHundredths(Ratio(purchasers * 100, total_visitors)),
          avg_visit_duration |->
              LET total == RatioSum(durations)
              IN  RoundHundredths(Ratio(total[1], total[2] * total_visitors)),
          total_checkout_visitors |-> CountWhere(analyzed_tracks, visited_checkout_flag),
          behavior_distribution |-> counts ]

\* generate_summary averaging the durations of an empty list: np.mean([]) is nan,
\* kept as 0/0
generate_summary_mean_of_empty(analyzed_tracks) ==
    IF analyzed_tracks = <<>>
    THEN [ empty_summary EXCEPT !.avg_visit_duration = Ratio(0, 0) ]
    ELSE non_empty_summary(analyzed_tracks)

\* generate_summary counting purchasers by label alone
generate_summary_by_label(analyzed_tracks) ==
    IF analyzed_tracks = <<>> THEN empty_summary
    ELSE [ non_empty_summary(analyzed_tracks) EXCEPT
             !.total_customers = DictGetOr(behavior_counts(analyzed_tracks), "purchasing", 0),
             !.purchasers = DictGetOr(behavior_counts(analyzed_tracks), "purchasing", 0) ]

\* BehaviorAnalyzer.generate_summary
generate_summary(analyzed_tracks) ==
    IF analyzed_tracks = <<>> THEN empty_summary
    ELSE non_empty_summary(analyzed_tracks)

----------------------------------------------------------------------------
(* The result lists handed to generate_summary *)

MaxResults == 3      \* results per generate_summary() call

\* results as analyze_track returns them: a purchase and an idle visitor
AnalyzedResults ==
    { analyze_track(BehaviorAnalyzer(1920, 1080, TicksPerSecond),
                    PathTrack(1, sh[1], sh[2], sh[3], 1)) :
        sh \in { <<"checkout", 5, 1>>, <<"still", 10, 2>> } }

\* results as exporters and callers hand them over, with entries missing: a record
\* with zones but no flags, a flag without a label, a label alone, a checkout
\* visit flagged on an idle visitor
LooseResults ==
    { [ behavior |-> "window_shopping", duration |-> Ratio(45, 1),
        zones_visited |-> {"entry", "main_area", "checkout"} ],
      [ made_purchase |-> TRUE, visit_duration |-> Ratio(120, 1) ],
      [ behavior |-> "purchasing" ],
      [ behavior |-> "idle", duration |-> Ratio(10, 1),
        visited_checkout |-> TRUE, made_purchase |-> FALSE ] }

SummaryInputs == SeqsUpTo(AnalyzedResults \cup LooseResults, MaxResults)

\* generate_summary(analyzed_tracks) on the analyzer
GenerateSummary ==
    \E analyzed_tracks \in SummaryInputs :
        /\ summary_call' = [ op |-> "generate_summary",
                             analyzed_tracks |-> analyzed_tracks,
                             summary |-> generate_summary(analyzed_tracks) ]
        /\ UNCHANGED <<analyzer, analyses, zones_config, zone_detector, zone_call>>
        /\ UNCHANGED <<trackerVars, alertVars, serverVars>>

----------------------------------------------------------------------------
(* ZoneDetector: construction and queries *)

\* zone configurations the module may be imported with: the repository's, one
\* whose checkout zone has x_start > x_end, one whose entry zone has
\* y_start = y_end
ZoneConfigs ==
    { ConfiguredZones,
      [ ConfiguredZones EXCEPT !.CHECKOUT_ZONE.x_start = Ratio(6, 10),
                               !.CHECKOUT_ZONE.x_end = Ratio(4, 10) ],
      [ ConfiguredZones EXCEPT !.ENTRY_ZONE.y_start = Ratio(5, 10),
                               !.ENTRY_ZONE.y_end = Ratio(5, 10) ] }

\* frame sizes: full HD, a laptop panel (zone bounds are no whole pixels), and a
\* frame so small that the zones overlap
FrameSizes == { <<1920, 1080>>, <<1366, 768>>, <<2, 2>> }

\* the points classified: on, next to and away from the zone borders
ZonePoints ==
    { <<x, y>> : x \in {0, 1, 2, 409, 410, 576, 577, 768, 819, 820, 956, 957, 1152,
                        1153, 1344, 1920},
                 y \in {0, 1, 2, 537, 538, 755, 756, 1080, 1081} }

NoZoneCall == [ op |-> "none", point |-> <<0, 0>>, name |-> "" ]

\* ZoneDetector(frame_width, frame_height): __init__ computes the three pixel
\* zones and checks nothing
ConstructZoneDetector ==
    \E size \in FrameSizes :
        /\ zone_detector' = Some(ZoneDetector(size[1], size[2], zones_config))
        /\ UNCHANGED <<zones_config, zone_call>>
        /\ UNCHANGED <<analyzer, analyses, summary_call>>
        /\ UNCHANGED <<trackerVars, alertVars, serverVars>>

\* get_zone_name(point) on the constructed detector
GetZoneName ==
    \E point \in ZonePoints :
        /\ ~IsNone(zone_detector)
        /\ zone_call' = [ op |-> "get_zone_name", point |-> point,
                          name |-> get_zone_name(Val(zone_detector), point) ]
        /\ UNCHANGED <<zones_config, zone_detector>>
        /\ UNCHANGED <<analyzer, analyses, summary_call>>
        /\ UNCHANGED <<trackerVars, alertVars, serverVars>>

\* no ZoneDetector constructed yet, core/config.py as it is in the repository
ZoneInit ==
    /\ zones_config = ConfiguredZones
    /\ zone_detector = None
    /\ zone_call = NoZoneCall

----------------------------------------------------------------------------
(* core/tracker.py, core/alert_system.py: the constructors and their arguments *)

CROWD_THRESHOLD == 10            \* core/config.py

\* PersonTracker(max_age, min_hits, iou_threshold): the instance returned
PersonTracker(max_age_arg, min_hits_arg, iou_threshold_arg) ==
    [ max_age |-> max_age_arg, min_hits |-> min_hits_arg,
      iou_threshold |-> iou_threshold_arg,
      tracks |-> <<>>, next_track_id |-> 1, frame_count |-> 0 ]

\* "value or default": the default replaces None and every falsy value
OrDefault(value, default) ==
    IF IsNone(value) \/ Val(value) = 0 THEN default ELSE Val(value)

\* AlertSystem(crowd_threshold, loitering_time, enable_logging): the instance returned
AlertSystem(crowd_threshold_arg, loitering_time_arg, enable_logging_arg) ==
    [ crowd_threshold |-> OrDefault(crowd_threshold_arg, CROWD_THRESHOLD),
      loitering_time |-> loitering_time_arg,
      enable_logging |-> enable_logging_arg,
      active_alerts |-> <<>>, alert_history |-> <<>>, callbacks |-> <<>>,
      total_alerts |-> 0, alerts_by_type |-> [ t \in AlertType |-> 0 ] ]

\* the arguments callers construct with: the defaults, small values and
\* non-positive ones
MaxAgeArgs == { -1, 0, 1, 30 }
MinHitsArgs == { -1, 0, 1, 3 }
IouThresholdArgs == { Ratio(-1, 10), Ratio(0, 1), Ratio(3, 10), Ratio(1, 2) }
CrowdThresholdArgs == { None, Some(-1), Some(0), Some(5), Some(10) }
LoiteringTimeArgs == { -1, 0, 60, 300 }

NoConstruction == [ op |-> "none", args |-> <<>>, instance |-> None ]

\* PersonTracker(...) called; no statement of __init__ raises
ConstructPersonTracker ==
    \E max_age_arg \in MaxAgeArgs, min_hits_arg \in MinHitsArgs,
       iou_threshold_arg \in IouThresholdArgs :
        /\ constructed' =
               [ op |-> "PersonTracker",
                 args |-> [ max_age |-> max_age_arg, min_hits |-> min_hits_arg,
                            iou_threshold |-> iou_threshold_arg ],
                 instance |-> Some(PersonTracker(max_age_arg, min_hits_arg,
                                                 iou_threshold_arg)) ]
        /\ UNCHANGED <<processing, reading, streams>>
        /\ UNCHANGED <<trackerVars, alertVars, analyzerVars>>

\* AlertSystem(...) called; no statement of __init__ raises
ConstructAlertSystem ==
    \E crowd_threshold_arg \in CrowdThresholdArgs,
       loitering_time_arg \in LoiteringTimeArgs, enable_logging_arg \in BOOLEAN :
        /\ constructed' =
               [ op |-> "AlertSystem",
                 args |-> [ crowd_threshold |-> crowd_threshold_arg,
                            loitering_time |-> loitering_time_arg ],
                 instance |-> Some(AlertSystem(crowd_threshold_arg, loitering_time_arg,
                                               enable_logging_arg)) ]
        /\ UNCHANGED <<processing, reading, streams>>
        /\ UNCHANGED <<trackerVars, alertVars, analyzerVars>>

----------------------------------------------------------------------------
(* core/alert_system.py: check_alerts() statement by statement, with a reader *)

\* check_alerts up to its loop over new_alerts: the state the three checks leave
\* and the alerts they created
check_alerts_new(S, active_tracks, timestamp, clock) ==
    LET crowd == check_crowd(S, active_tracks, timestamp, clock)
        crowd_alerts == IF IsNone(crowd.alert) THEN <<>> ELSE << Val(crowd.alert) >>
    IN  [ S |-> crowd.S,
          new_alerts |-> crowd_alerts
                         \o check_loitering(crowd.S, active_tracks, timestamp, clock)
                         \o check_idle_behavior(crowd.S, active_tracks, timestamp, clock) ]

\* AlertSystem.get_statistics
get_statistics(S) ==
    LET active_count == Len(unresolved_only(S, S.active_alerts))
    IN  [ total_alerts |-> S.total_alerts,
          active_alerts |-> active_count,
          resolved_alerts |-> S.total_alerts - active_count,
          alerts_by_type |-> S.alerts_by_type,
          alert_history_size |-> Len(S.alert_history) ]

\* the processing thread outside check_alerts
Idle == [ pc |-> "idle", pending |-> <<>>, alert |-> 0 ]

NoRead == [ op |-> "none", ret |-> get_statistics(
              [ alerts |-> <<>>, active_alerts |-> <<>>, alert_history |-> <<>>,
                total_alerts |-> 0, alerts_by_type |-> [ t \in AlertType |-> 0 ],
                alerts_log |-> <<>> ]) ]

\* the processing thread enters check_alerts and runs the three checks
StartCheckAlerts ==
    \E active_tracks \in TrackLists, timestamp \in CheckTimestamps :
        LET r == check_alerts_new(AlertState, active_tracks, timestamp, now)
        IN  /\ processing.pc = "idle"
            /\ Len(r.S.alerts) + Len(r.new_alerts) <= MaxAlerts
            /\ SetAlertState(r.S)
            /\ processing' = IF r.new_alerts = <<>> THEN Idle
                             ELSE [ pc |-> "append_active", pending |-> r.new_alerts,
                                    alert |-> 0 ]
            /\ UNCHANGED <<callbacks, now, acall>>
            /\ UNCHANGED <<constructed, reading, streams>>
            /\ UNCHANGED <<trackerVars, analyzerVars>>

\* _process_alert: self.active_alerts.append(alert)
ProcessAppendActive ==
    /\ processing.pc = "append_active"
    /\ alerts' = Append(alerts, Head(processing.pending))
    /\ active_alerts' = Append(active_alerts, Len(alerts) + 1)
    /\ processing' = [ processing EXCEPT !.pc = "append_history",
                                         !.alert = Len(alerts) + 1 ]
    /\ UNCHANGED <<alert_history, callbacks, total_alerts, alerts_by_type, alerts_log,
                   now, acall>>
    /\ UNCHANGED <<constructed, reading, streams>>
    /\ UNCHANGED <<trackerVars, analyzerVars>>

\* _process_alert: self.alert_history.append(alert)
ProcessAppendHistory ==
    /\ processing.pc = "append_history"
    /\ alert_history' = Append(alert_history, processing.alert)
    /\ processing' = [ processing EXCEPT !.pc = "count_total" ]
    /\ UNCHANGED <<alerts, active_alerts, callbacks, total_alerts, alerts_by_type,
                   alerts_log, now, acall>>
    /\ UNCHANGED <<constructed, reading, streams>>
    /\ UNCHANGED <<trackerVars, analyzerVars>>

\* _process_alert: self.total_alerts += 1
ProcessCountTotal ==
    /\ processing.pc = "count_total"
    /\ total_alerts' = total_alerts + 1
    /\ processing' = [ processing EXCEPT !.pc = "count_type" ]
    /\ UNCHANGED <<alerts, active_alerts, alert_history, callbacks, alerts_by_type,
                   alerts_log, now, acall>>
    /\ UNCHANGED <<constructed, reading, streams>>
    /\ UNCHANGED <<trackerVars, analyzerVars>>

\* _process_alert from self.alerts_by_type[...] += 1 to its end (log, callbacks,
\* print), then the next alert of the loop of check_alerts or its return
ProcessFinish ==
    /\ processing.pc = "count_type"
    /\ alerts_by_type' = [ alerts_by_type EXCEPT
                             ![alerts[processing.alert].alert_type] = @ + 1 ]
    /\ alerts_log' = IF enable_logging THEN Append(alerts_log, processing.alert)
                     ELSE alerts_log
    /\ processing' = IF Tail(processing.pending) = <<>> THEN Idle
                     ELSE [ pc |-> "append_active", pending |-> Tail(processing.pending),
                            alert |-> 0 ]
    /\ UNCHANGED <<alerts, active_alerts, alert_history, callbacks, total_alerts,
                   now, acall>>
    /\ UNCHANGED <<constructed, reading, streams>>
    /\ UNCHANGED <<trackerVars, analyzerVars>>

\* the reader thread calls get_statistics() between two statements of the
\* processing thread
ReadStatistics ==
    /\ reading' = [ op |-> "get_statistics", ret |-> get_statistics(AlertState) ]
    /\ UNCHANGED <<constructed, processing, streams>>
    /\ UNCHANGED <<trackerVars, alertVars, analyzerVars>>

----------------------------------------------------------------------------
(* api/routes/live_camera_routes.py, core/live_camera.py: the clients of one camera *)

MaxStreamFrames == 2     \* update() calls entered per camera

\* the clients connected to one camera: GET /live/stream and WS /live/ws/frames
StreamClients == { "stream1", "stream2" }
FrameSockets == { "ws1", "ws2" }
Clients == StreamClients \cup FrameSockets

\* a client between two frames
Waiting == [ pc |-> "waiting", detections |-> <<>>, timestamp |-> 0 ]

InUpdate(c) == streams[c].pc = "update"

\* the person detections of a frame read by a client
FrameBatches == SeqsUpTo({ Detection(BoxA, "person"), Detection(BoxB, "person") }, 1)

\* a client's loop reads a frame and process_frame() enters self.tracker.update():
\* self.frame_count += 1. generate_frames is a plain generator, which the
\* StreamingResponse iterates in a worker thread, one per request; websocket_frames
\* runs process_frame() on the event loop thread, where no other coroutine runs
\* until it returns
EnterUpdate(c) ==
    \E detections \in FrameBatches, dt \in TimeSteps :
        /\ streams[c].pc = "waiting"
        /\ c \in FrameSockets => \A other \in FrameSockets : ~InUpdate(other)
        /\ frame_count < MaxStreamFrames
        /\ frame_count' = frame_count + 1
        /\ streams' = [ streams EXCEPT ![c] = [ pc |-> "update", detections |-> detections,
                                                 timestamp |-> call.timestamp + dt ] ]
        /\ UNCHANGED <<min_hits, tracks, next_track_id, call, matching>>
        /\ UNCHANGED <<constructed, processing, reading>>
        /\ UNCHANGED <<alertVars, analyzerVars>>

\* the rest of update(), from the person filter to the return
FinishUpdate(c) ==
    /\ InUpdate(c)
    /\ LET detections == streams[c].detections
           timestamp == streams[c].timestamp
           persons == person_detections(detections)
           st0 == [tracks |-> tracks, next_track_id |-> next_track_id]
           st1 == IF Len(tracks) = 0
                  THEN create_tracks(st0, persons, {}, 1, frame_count, timestamp)
                  ELSE match_detections_to_tracks(st0, persons, frame_count, timestamp)
       IN  /\ tracks' = remove_old_tracks(st1.tracks, frame_count)
           /\ next_track_id' = st1.next_track_id
           /\ call' = [detections |-> detections, timestamp |-> timestamp]
    /\ streams' = [ streams EXCEPT ![c] = Waiting ]
    /\ UNCHANGED <<min_hits, frame_count, matching>>
    /\ UNCHANGED <<constructed, processing, reading>>
    /\ UNCHANGED <<alertVars, analyzerVars>>

\* the server before any construction, alerting call or client
ServerInit ==
    /\ constructed = NoConstruction
    /\ processing = Idle
    /\ reading = NoRead
    /\ streams = [ c \in Clients |-> Waiting ]

----------------------------------------------------------------------------
(* Specifications *)

\* one PersonTracker fed frame by frame
Init == TrackerInit /\ AlertInit /\ AnalyzerInit /\ ZoneInit /\ ServerInit

TrackerUpdate == Update /\ UNCHANGED <<alertVars, analyzerVars, serverVars>>

Next == TrackerUpdate

Spec == Init /\ [][Next]_vars

\* one AlertSystem driven by rule evaluation only
AlertOnlyInit == min_hits = 2 /\ tracks = <<>> /\ next_track_id = 1 /\ frame_count = 0
                 /\ call = [detections |-> <<>>, timestamp |-> 0]
                 /\ matching = NoMatching /\ AlertInit
                 /\ AnalyzerInit /\ ZoneInit /\ ServerInit

CheckNext == CheckAlerts \/ ClearResolvedAlerts \/ Tick

CheckSpec == AlertOnlyInit /\ [][CheckNext]_vars

\* one AlertSystem with registered callbacks
CallbackNext == CheckAlerts \/ CreateCustomAlert \/ RegisterCallback

CallbackSpec == AlertOnlyInit /\ [][CallbackNext]_vars

\* one AlertSystem with its whole interface but callbacks
AlertNext == CheckAlerts \/ CreateCustomAlert \/ ClearResolvedAlerts \/ Reset \/ Tick

AlertSpec == AlertOnlyInit /\ [][AlertNext]_vars

\* one AlertSystem queried for its history between alerting calls
HistoryNext == CheckAlerts \/ CreateCustomAlert \/ GetAlertHistory

HistorySpec == AlertOnlyInit /\ [][HistoryNext]_vars

\* the greedy loop run iteration by iteration; an iteration that can run does run
MatchNext == StartMatching \/ MatchIteration \/ ReturnFromMatching

MatchSpec == AlertOnlyInit /\ [][MatchNext]_vars /\ WF_vars(MatchIteration)

\* the constructors called with every argument
ConstructionNext == ConstructPersonTracker \/ ConstructAlertSystem

ConstructionSpec == AlertOnlyInit /\ [][ConstructionNext]_vars

\* one AlertSystem written by the processing thread and read by a reader thread
SnapshotNext ==
    \/ StartCheckAlerts \/ ProcessAppendActive \/ ProcessAppendHistory
    \/ ProcessCountTotal \/ ProcessFinish \/ ReadStatistics

SnapshotSpec == AlertOnlyInit /\ [][SnapshotNext]_vars

\* one camera's tracker driven by the clients connected to it
StreamNext == \E c \in Clients : EnterUpdate(c) \/ FinishUpdate(c)

StreamSpec == Init /\ [][StreamNext]_vars

\* one BehaviorAnalyzer analysing tracks
AnalyzerNext == AnalyzeTrack

AnalyzerSpec == AlertOnlyInit /\ [][AnalyzerNext]_vars

\* one BehaviorAnalyzer summarising lists of results
SummaryNext == GenerateSummary

SummarySpec == AlertOnlyInit /\ [][SummaryNext]_vars

\* one ZoneDetector constructed under some zone configuration and queried
ZoneOnlyInit == /\ min_hits = 2 /\ tracks = <<>> /\ next_track_id = 1 /\ frame_count = 0
                /\ call = [detections |-> <<>>, timestamp |-> 0]
                /\ matching = NoMatching
                /\ AlertInit /\ AnalyzerInit /\ ServerInit
                /\ zones_config \in ZoneConfigs
                /\ zone_detector = None /\ zone_call = NoZoneCall

ZoneNext == ConstructZoneDetector \/ GetZoneName

ZoneSpec == ZoneOnlyInit /\ [][ZoneNext]_vars

----------------------------------------------------------------------------
(* Properties of PersonTracker, checked under Spec *)

\* the tracks that existed before the step and received a detection in it
Grown(i) == Len(tracks'[i].detections) > Len(tracks[i].detections)

\* the positions in tracks' whose last detection was appended by the step
AppendedTo == { i \in 1..Len(tracks') : i > Len(tracks) \/ Grown(i) }

\* C1: in one update() call every track receives at most one detection and the
\* detections appended to tracks are exactly the person detections of the batch,
\* each appended once: the committed pairs form a one-to-one matching
C1_OneToOneStep ==
    LET persons == person_detections(call'.detections)
    IN  /\ \A i \in 1..Len(tracks) :
              Len(tracks'[i].detections) - Len(tracks[i].detections) \in {0, 1}
        /\ \A i \in (Len(tracks) + 1)..Len(tracks') : Len(tracks'[i].detections) = 1
        /\ \A d \in Detections :
              Cardinality({ i \in AppendedTo : Last(tracks'[i].detections) = d })
                  = Cardinality({ k \in 1..Len(persons) : persons[k] = d })

C1_OneToOneMatching == [][C1_OneToOneStep]_vars

\* C1 witness: a call matched two detections to two existing tracks
C1_Witness ==
    \E i, j \in 1..Len(tracks) :
        /\ i # j
        /\ Len(tracks[i].frames) >= 2 /\ Last(tracks[i].frames) = frame_count
        /\ Len(tracks[j].frames) >= 2 /\ Last(tracks[j].frames) = frame_count

\* C2: a track created by update() gets an id above every id assigned before,
\* existing tracks keep their id, and no two tracks share an id
C2_FreshIdStep ==
    /\ \A i \in 1..Len(tracks) : tracks'[i].track_id = tracks[i].track_id
    /\ \A j \in (Len(tracks) + 1)..Len(tracks') :
          /\ tracks'[j].track_id >= next_track_id
          /\ \A i \in 1..(j - 1) : tracks'[i].track_id < tracks'[j].track_id
    /\ \A i, j \in 1..Len(tracks') :
          i # j => tracks'[i].track_id # tracks'[j].track_id

C2_IdsIncreasingNeverReused == [][C2_FreshIdStep]_vars

\* C2 witness: a track was created after another track had exited
C2_Witness ==
    \E i, j \in 1..Len(tracks) :
        /\ ~tracks[i].is_active
        /\ Val(tracks[j].entry_frame) > Val(tracks[i].exit_frame)

\* C3: a track turns inactive only in a call whose eviction pass sees its
\* frames_without_detection above max_age, and get_completed_tracks() holds only
\* inactive tracks with total_frames >= min_hits
C3_ExitStep ==
    /\ \A i \in 1..Len(tracks) :
          tracks[i].is_active /\ ~tracks'[i].is_active
              => tracks'[i].frames_without_detection > max_age
    /\ \A j \in (Len(tracks) + 1)..Len(tracks') : tracks'[j].is_active
    /\ LET completed == SelectSeq(tracks', IsCompleted)
       IN  \A k \in 1..Len(completed) :
              ~completed[k].is_active /\ completed[k].total_frames >= min_hits

C3_ExitedOnlyWhenAged == [][C3_ExitStep]_vars

\* C3 witness: a track has exited and is reported as completed
C3_Witness == Len(get_completed_tracks) > 0

\* a track that aged out without reaching min_hits
IsNoise(t) == t.frames_without_detection > max_age /\ t.total_frames < min_hits

\* C4 (as claimed): a track that aged out below min_hits is in neither the list
\* update() returns (= get_active_tracks) nor get_completed_tracks()
C4_NoiseTracksDropped ==
    \A i \in 1..Len(tracks) :
        IsNoise(tracks[i]) =>
            /\ \A k \in 1..Len(get_active_tracks) : get_active_tracks[k] # tracks[i]
            /\ \A k \in 1..Len(get_completed_tracks) : get_completed_tracks[k] # tracks[i]

\* C8 (as claimed): the call that turns a track inactive stamps it with its own
\* timestamp argument and frame counter
C8_ExitStampStep ==
    \A i \in 1..Len(tracks) :
        tracks[i].is_active /\ ~tracks'[i].is_active
            => /\ tracks'[i].exit_time = Some(call'.timestamp)
               /\ tracks'[i].exit_frame = Some(frame_count')

C8_ExitStampedWithCallTimestamp == [][C8_ExitStampStep]_vars

----------------------------------------------------------------------------
(* Properties of AlertSystem under rule evaluation, checked under CheckSpec *)

\* the unresolved alerts of a type among the alert objects als
Open(als, alert_type) ==
    { o \in 1..Len(als) : als[o].alert_type = alert_type /\ ~als[o].resolved }

\* the unresolved alerts of a type about one track
OpenAbout(als, alert_type, track_id) ==
    { o \in Open(als, alert_type) : DictGet(als[o].details, "track_id") = Some(track_id) }

\* the step is a check_alerts() call
IsCheckStep == acall'.op = "check_alerts" /\ now' = now

\* C5: at most one unresolved alert per (type, subject): one crowd alert for the
\* stream, one loitering and one idle alert per track id
C5_AtMostOneOpenPerSubject ==
    /\ Cardinality(Open(alerts, "crowd_detected")) <= 1
    /\ \A alert_type \in {"loitering", "suspicious_behavior"}, id \in 1..3 :
          Cardinality(OpenAbout(alerts, alert_type, id)) <= 1

\* C5 witness: track 1 is over loitering_time in a call that follows the call
\* that opened its loitering alert, and it has an idle alert as well
C5_Witness ==
    /\ acall.op = "check_alerts" /\ 1 \in acall.over
    /\ \E o \in OpenAbout(alerts, "loitering", 1) :
          \A k \in 1..Len(acall.ret) : acall.ret[k] # o
    /\ OpenAbout(alerts, "suspicious_behavior", 1) # {}

\* C6: a call at or above crowd_threshold leaves exactly one unresolved crowd
\* alert, the one that was open before if there was one; a call below it leaves
\* none and stamps the open one with the clock; a resolved crowd alert keeps its
\* resolved flag and resolved_at in every later step, and a crowd alert is only
\* resolved by a call below the threshold
C6_CrowdStep ==
    /\ IsCheckStep /\ acall'.count >= crowd_threshold =>
          /\ Cardinality(Open(alerts', "crowd_detected")) = 1
          /\ Open(alerts, "crowd_detected") # {}
                => Open(alerts', "crowd_detected") = Open(alerts, "crowd_detected")
    /\ IsCheckStep /\ acall'.count < crowd_threshold =>
          /\ Open(alerts', "crowd_detected") = {}
          /\ \A o \in Open(alerts, "crowd_detected") :
                alerts'[o].resolved /\ alerts'[o].resolved_at = Some(now)
    /\ \A o \in 1..Len(alerts) :
          alerts[o].alert_type = "crowd_detected" =>
              IF alerts[o].resolved
              THEN alerts'[o].resolved /\ alerts'[o].resolved_at = alerts[o].resolved_at
              ELSE alerts'[o].resolved => IsCheckStep /\ acall'.count < crowd_threshold

C6_OneCrowdAlertPerRun == [][C6_CrowdStep]_vars

\* C6 witness: a first crowd run has ended with its alert resolved and a second
\* run is going on with an alert of its own
C6_Witness ==
    /\ acall.op = "check_alerts" /\ acall.count >= crowd_threshold
    /\ \E o1, o2 \in 1..Len(alerts) :
          /\ alerts[o1].alert_type = "crowd_detected" /\ alerts[o1].resolved
          /\ alerts[o2].alert_type = "crowd_detected" /\ ~alerts[o2].resolved
          /\ acall.updated = << o2 >>

\* C7: a call at or above crowd_threshold that finds an unresolved crowd alert
\* returns and creates no crowd alert (the history, total_alerts and the crowd
\* counter grow by the other new alerts only) and leaves the call's count as the
\* current_count of the existing alert
C7_RefreshStep ==
    IsCheckStep /\ acall'.count >= crowd_threshold /\ Open(alerts, "crowd_detected") # {} =>
        /\ \A k \in 1..Len(acall'.ret) :
              alerts'[acall'.ret[k]].alert_type # "crowd_detected"
        /\ \A o \in (Len(alerts) + 1)..Len(alerts') :
              alerts'[o].alert_type # "crowd_detected"
        /\ alerts_by_type'["crowd_detected"] = alerts_by_type["crowd_detected"]
        /\ total_alerts' = total_alerts + Len(acall'.ret)
        /\ Len(alert_history') = Len(alert_history) + Len(acall'.ret)
        /\ \A o \in Open(alerts, "crowd_detected") :
              /\ ~alerts'[o].resolved
              /\ DictGet(alerts'[o].details, "current_count") = Some(acall'.count)

C7_CrowdRefreshInPlace == [][C7_RefreshStep]_vars

\* C7 witness: an alert opened at 2 people was refreshed by a call with 3
C7_Witness ==
    /\ acall.op = "check_alerts" /\ acall.count = 3
    /\ \E o \in Open(alerts, "crowd_detected") :
          /\ acall.updated = << o >>
          /\ alerts[o].details["people_count"] = 2
          /\ DictGet(alerts[o].details, "current_count") = Some(3)

----------------------------------------------------------------------------
(* Properties of the alert callbacks, checked under CallbackSpec *)

\* the invocations a list of alerts is due: per alert, every registered callback
\* once, in registration order
RECURSIVE DueCalls(_, _)
DueCalls(list, cbs) ==
    IF list = <<>> THEN <<>>
    ELSE [ i \in 1..Len(cbs) |-> [ index |-> i, callback |-> cbs[i], alert |-> Head(list) ] ]
         \o DueCalls(Tail(list), cbs)

\* the invocations made, without their outcome
MadeCalls(invoked) ==
    [ k \in 1..Len(invoked) |->
        [ index |-> invoked[k].index, callback |-> invoked[k].callback,
          alert |-> invoked[k].alert ] ]

IsAlertingCall == acall.op \in {"check_alerts", "create_custom_alert"}

\* C9 (as claimed): the callbacks are invoked, once each and in registration
\* order, for every alert the call created and for every alert it updated in place
C9_CallbacksOnCreateAndUpdate ==
    IsAlertingCall =>
        \A o \in { acall.ret[k] : k \in 1..Len(acall.ret) }
                 \cup { acall.updated[k] : k \in 1..Len(acall.updated) } :
            SelectSeq(MadeCalls(acall.invoked), LAMBDA c : c.alert = o)
                = DueCalls(<< o >>, callbacks)

\* C9 (amended): the invocations of a call are exactly those due to the alerts it
\* created, alert by alert in the order returned, each callback once in
\* registration order; an alert updated in place gets none
C9_CallbacksOnCreate ==
    IsAlertingCall =>
        /\ MadeCalls(acall.invoked) = DueCalls(acall.ret, callbacks)
        /\ \A k \in 1..Len(acall.updated), c \in 1..Len(acall.invoked) :
              acall.invoked[c].alert # acall.updated[k]

\* C9 witness: with two callbacks registered, a call created one alert and
\* refreshed another in place
C9_Witness ==
    /\ acall.op = "check_alerts"
    /\ Len(acall.ret) = 1 /\ Len(acall.updated) = 1
    /\ Len(callbacks) = 2 /\ Len(acall.invoked) = 2

\* the number of stored alerts of a type
CountOfType(list, alert_type) ==
    Cardinality({ k \in 1..Len(list) : alerts[list[k]].alert_type = alert_type })

\* C10: when a callback raises, the later callbacks are still invoked, the other
\* new alerts are still processed and returned, no exception leaves the call, and
\* the new alerts sit at the end of the active list, the history and the log with
\* the counters counting them
C10_RaisingCallbackIsolated ==
    IsAlertingCall /\ (\E c \in 1..Len(acall.invoked) : acall.invoked[c].raises) =>
        /\ ~acall.raised
        /\ MadeCalls(acall.invoked) = DueCalls(acall.ret, callbacks)
        /\ LET n == Len(acall.ret)
           IN  /\ Len(active_alerts) >= n /\ Len(alert_history) >= n
               /\ SubSeq(active_alerts, Len(active_alerts) - n + 1, Len(active_alerts)) = acall.ret
               /\ SubSeq(alert_history, Len(alert_history) - n + 1, Len(alert_history)) = acall.ret
               /\ SubSeq(alerts_log, Len(alerts_log) - n + 1, Len(alerts_log)) = acall.ret
        /\ total_alerts = Len(alert_history)
        /\ \A alert_type \in AlertType :
              alerts_by_type[alert_type] = CountOfType(alert_history, alert_type)

\* C10 witness: the first of two callbacks raised on each of two new alerts
C10_Witness ==
    /\ acall.op = "check_alerts"
    /\ Len(acall.ret) = 2 /\ Len(callbacks) = 2
    /\ acall.invoked[1].raises /\ ~acall.invoked[2].raises

----------------------------------------------------------------------------
(* Resolution and identity of alerts, checked under CheckSpec *)

\* C11 (as claimed): a check_alerts() call resolves every open alert whose rule is
\* false in that call: the crowd alert when the count is below crowd_threshold, a
\* loitering alert when its track is given with a duration not above
\* loitering_time, an idle alert when its track is given and is not stationary
\* with idle_duration above 60.  A track of acall.idle is given and, having ten
\* samples one second apart, is not over loitering_time; a track of acall.over
\* that is not in acall.idle is given and not idle
C11_ResolveStep ==
    IsCheckStep =>
        /\ acall'.count < crowd_threshold =>
              \A o \in Open(alerts, "crowd_detected") : alerts'[o].resolved
        /\ \A id \in acall'.idle \ acall'.over :
              \A o \in OpenAbout(alerts, "loitering", id) : alerts'[o].resolved
        /\ \A id \in acall'.over \ acall'.idle :
              \A o \in OpenAbout(alerts, "suspicious_behavior", id) : alerts'[o].resolved

C11_ResolvedWhenRuleTurnsFalse == [][C11_ResolveStep]_vars

\* C12 (as claimed): any two distinct alerts created by one AlertSystem have
\* different alert_id values
C12_AlertIdsUnique ==
    \A o1, o2 \in 1..Len(alerts) :
        o1 # o2 => alerts[o1].alert_id # alerts[o2].alert_id

----------------------------------------------------------------------------
(* Properties of BehaviorAnalyzer.analyze_track, checked under AnalyzerSpec *)

\* two tracks with the same positions, timestamps and entry/exit stamps
SameHistory(t, u) ==
    /\ t.positions = u.positions /\ t.timestamps = u.timestamps
    /\ t.entry_time = u.entry_time /\ t.exit_time = u.exit_time
    /\ t.entry_frame = u.entry_frame /\ t.exit_frame = u.exit_frame

\* C13: any two analyze_track() calls of one analyzer on tracks with the same
\* history return the same behavior label, confidence and details, whatever was
\* analysed before and in whatever order
C13_SameHistorySameAnalysis ==
    \A i, j \in 1..Len(analyses) :
        SameHistory(analyses[i].track, analyses[j].track) =>
            /\ analyses[i].result.behavior = analyses[j].result.behavior
            /\ analyses[i].result.confidence = analyses[j].result.confidence
            /\ analyses[i].result.details = analyses[j].result.details

\* C13 witness: two different tracks with one history of at least 5 positions were
\* analysed one after the other
C13_Witness ==
    /\ Len(analyses) = 2
    /\ analyses[1].track # analyses[2].track
    /\ SameHistory(analyses[1].track, analyses[2].track)
    /\ Len(analyses[1].track.positions) >= 5
    /\ analyses[1].result.behavior = "idle"

\* some recorded position of the track is classified into the checkout zone
InCheckout(self, track) ==
    \E i \in 1..Len(track.positions) :
        get_zone_name(self.zone_detector, track.positions[i]) = "checkout"

\* C14: a track with at least 5 positions is labelled purchasing with confidence
\* 0.9 exactly when one of its positions is classified into the checkout zone,
\* and visited_checkout and made_purchase both say so
C14_PurchasingIffCheckout ==
    \A i \in 1..Len(analyses) :
        LET track == analyses[i].track
            result == analyses[i].result
        IN  Len(track.positions) >= 5 =>
                /\ result.visited_checkout = InCheckout(analyzer, track)
                /\ result.made_purchase = InCheckout(analyzer, track)
                /\ InCheckout(analyzer, track) =>
                      result.behavior = "purchasing" /\ result.confidence = Ratio(90, 100)
                /\ ~InCheckout(analyzer, track) => result.behavior # "purchasing"

\* C14 witness: a track standing in the checkout zone for 9 s was analysed, and so
\* was one standing as long in the main area
C14_Witness ==
    /\ \E i \in 1..Len(analyses) :
          /\ analyses[i].result.behavior = "purchasing"
          /\ analyses[i].result.is_stationary
          /\ RatioGreater(analyses[i].result.duration, Ratio(IDLE_TIME_THRESHOLD, 1))
    /\ \E i \in 1..Len(analyses) :
          /\ analyses[i].result.behavior # "purchasing"
          /\ analyses[i].result.is_stationary
          /\ Len(analyses[i].track.positions) >= 5

\* the label and confidence the rules give in their order, first match wins, from
\* the stationarity, duration (seconds) and movement distance the result reports
RuledLabel(result) ==
    LET secs == result.duration
        dist == result.movement_distance
    IN  IF result.is_stationary /\ secs[1] > 5 * secs[2]
        THEN <<"idle", Ratio(85, 100)>>
        ELSE IF secs[1] < 3 * secs[2] /\ dist < 100
        THEN <<"passing_through", Ratio(80, 100)>>
        ELSE IF secs[1] >= 3 * secs[2]
        THEN IF dist * secs[2] > 10 * secs[1]
             THEN <<"browsing", Ratio(85, 100)>>
             ELSE <<"browsing", Ratio(75, 100)>>
        ELSE <<"window_shopping", Ratio(80, 100)>>

\* C15: a track with at least 5 positions and no checkout visit gets the label and
\* confidence of the first matching rule among idle, passing_through, browsing
\* and window_shopping, computed from its duration and movement distance
C15_RulesInOrder ==
    \A i \in 1..Len(analyses) :
        LET track == analyses[i].track
            result == analyses[i].result
        IN  Len(track.positions) >= 5 /\ ~InCheckout(analyzer, track) =>
                /\ result.duration = Seconds(duration(track))
                /\ result.movement_distance = movement_distance(track)
                /\ <<result.behavior, result.confidence>> = RuledLabel(result)
                /\ result.behavior \in
                      {"idle", "passing_through", "browsing", "window_shopping"}

\* C15 witness: a visit of exactly 3.0 s was labelled browsing and a shorter one
\* that moved 100 px or more was labelled window_shopping
C15_Witness ==
    /\ \E i \in 1..Len(analyses) :
          /\ analyses[i].result.duration = Seconds(3 * TicksPerSecond)
          /\ analyses[i].result.behavior = "browsing"
    /\ \E i \in 1..Len(analyses) :
          /\ analyses[i].result.movement_distance >= 100
          /\ analyses[i].result.behavior = "window_shopping"

\* C16 (as claimed): the stationarity analyze_track() reports and uses for the
\* idle rule is Track.is_stationary: at least 10 positions, with the x- and the
\* y-variance of the last 10 both below 50
C16_StationarityAsTrack ==
    \A i \in 1..Len(analyses) :
        LET track == analyses[i].track
        IN  Len(track.positions) >= 5 =>
                analyses[i].result.is_stationary = is_stationary(track)

\* C17: a track with fewer than 5 positions gets passing_through with confidence
\* 0.5, visited_checkout and made_purchase false and the insufficient-data text,
\* also when one of its positions lies in the checkout zone
C17_InsufficientData ==
    \A i \in 1..Len(analyses) :
        LET result == analyses[i].result
        IN  Len(analyses[i].track.positions) < 5 =>
                /\ result.behavior = "passing_through"
                /\ result.confidence = Ratio(50, 100)
                /\ ~result.visited_checkout /\ ~result.made_purchase
                /\ result.details = <<"Insufficient tracking data">>

\* C17 witness: a track without positions and a track with 4 positions, one of
\* them in the checkout zone, were analysed
C17_Witness ==
    /\ \E i \in 1..Len(analyses) : analyses[i].track.positions = <<>>
    /\ \E i \in 1..Len(analyses) :
          /\ Len(analyses[i].track.positions) = 4
          /\ InCheckout(analyzer, analyses[i].track)

----------------------------------------------------------------------------
(* Properties of Track, checked under Spec *)

\* C18 (as claimed): duration is exit_time - entry_time whenever both stamps are
\* set, a stamp of value 0 included, and else the last timestamp minus the first
\* (0 without timestamps)
C18_DurationFromStamps ==
    \A i \in 1..Len(tracks) :
        LET t == tracks[i]
        IN  duration(t) =
                IF ~IsNone(t.entry_time) /\ ~IsNone(t.exit_time)
                THEN Val(t.exit_time) - Val(t.entry_time)
                ELSE IF t.timestamps # <<>>
                     THEN Last(t.timestamps) - t.timestamps[1]
                     ELSE 0

\* C19: every track of the tracker has as many positions, timestamps, frames and
\* detections as its total_frames, and at least one
C19_ParallelLists ==
    \A i \in 1..Len(tracks) :
        LET t == tracks[i]
        IN  /\ Len(t.positions) = t.total_frames
            /\ Len(t.timestamps) = t.total_frames
            /\ Len(t.frames) = t.total_frames
            /\ Len(t.detections) = t.total_frames
            /\ t.total_frames >= 1

\* C19 witness: next to a track updated three times there is a track with a
\* single sample that has missed frames
C19_Witness ==
    \E i, j \in 1..Len(tracks) :
        /\ tracks[i].total_frames >= 3
        /\ tracks[j].total_frames = 1 /\ tracks[j].frames_without_detection >= 1

\* C20: the entry stamps of a track are those of its first update and never
\* change; the exit stamps stay unset while the track is active, are set by the
\* call that turns it inactive, and never change afterwards
C20_StampStep ==
    /\ \A i \in 1..Len(tracks) :
          /\ tracks'[i].entry_time = tracks[i].entry_time
          /\ tracks'[i].entry_frame = tracks[i].entry_frame
          /\ IF ~tracks[i].is_active
             THEN /\ tracks'[i].exit_time = tracks[i].exit_time
                  /\ tracks'[i].exit_frame = tracks[i].exit_frame
                  /\ ~tracks'[i].is_active
             ELSE IF tracks'[i].is_active
                  THEN IsNone(tracks'[i].exit_time) /\ IsNone(tracks'[i].exit_frame)
                  ELSE ~IsNone(tracks'[i].exit_time) /\ ~IsNone(tracks'[i].exit_frame)
    /\ \A j \in (Len(tracks) + 1)..Len(tracks') :
          /\ tracks'[j].entry_time = Some(tracks'[j].timestamps[1])
          /\ tracks'[j].entry_frame = Some(tracks'[j].frames[1])
          /\ Len(tracks'[j].timestamps) = 1
          /\ IsNone(tracks'[j].exit_time) /\ IsNone(tracks'[j].exit_frame)

C20_StampsWriteOnce == [][C20_StampStep]_vars

\* C20 witness: after a track had exited, a later call saw a detection at the
\* place of its last one and opened a new track for it
C20_Witness ==
    \E i, j \in 1..Len(tracks) :
        /\ ~tracks[i].is_active
        /\ frame_count > Val(tracks[i].exit_frame)
        /\ Val(tracks[j].entry_frame) = frame_count
        /\ tracks[j].detections[1] = Last(tracks[i].detections)

\* C21: in an update() call a track that was active before it ends with
\* frames_without_detection 0 when a detection was matched to it and with one
\* more than before otherwise; a track created in the call has 0
C21_MissCountStep ==
    /\ \A i \in 1..Len(tracks) :
          tracks[i].is_active =>
              tracks'[i].frames_without_detection =
                  IF Grown(i) THEN 0 ELSE tracks[i].frames_without_detection + 1
    /\ \A j \in (Len(tracks) + 1)..Len(tracks') :
          tracks'[j].frames_without_detection = 0

C21_MissCount == [][C21_MissCountStep]_vars

\* C21 witness: a call without person detections left an active track at two
\* missed frames, next to a track that had been matched and then missed once
C21_Witness ==
    /\ person_detections(call.detections) = <<>> /\ frame_count >= 1
    /\ \E i, j \in 1..Len(tracks) :
          /\ tracks[i].is_active /\ tracks[i].frames_without_detection = 2
          /\ tracks[j].is_active /\ tracks[j].total_frames >= 2
          /\ tracks[j].frames_without_detection = 1

----------------------------------------------------------------------------
(* Properties of BehaviorAnalyzer.generate_summary, checked under SummarySpec *)

\* a float that is 0.0
IsZero(x) == x[1] = 0 /\ x[2] > 0

\* C22: generate_summary([]) returns a summary with total_visitors and every
\* count 0, conversion_rate and avg_visit_duration 0.0 and an empty distribution
C22_EmptySummaryAllZero ==
    summary_call.op = "generate_summary" /\ summary_call.analyzed_tracks = <<>> =>
        LET summary == summary_call.summary
        IN  /\ \A key \in { "total_visitors", "total_customers", "window_shoppers",
                            "browsers", "purchasers", "passing_through", "idle",
                            "total_checkout_visitors" } :
                  key \in DOMAIN summary /\ summary[key] = 0
            /\ IsZero(summary.conversion_rate)
            /\ IsZero(summary.avg_visit_duration)
            /\ DOMAIN summary.behavior_distribution = {}

\* C22 witness: generate_summary was called with the empty list
C22_Witness ==
    summary_call.op = "generate_summary" /\ summary_call.analyzed_tracks = <<>>

\* the sum of the counts of a distribution
RECURSIVE SumOfCounts(_, _)
SumOfCounts(counts, labels) ==
    IF labels = {} THEN 0
    ELSE LET b == CHOOSE x \in labels : TRUE
         IN  counts[b] + SumOfCounts(counts, labels \ {b})

\* what generate_summary returns about a non-empty list, given which results
\* count as purchasers
SummaryCounts(IsPurchaser(_)) ==
    LET list == summary_call.analyzed_tracks
        summary == summary_call.summary
    IN  summary_call.op = "generate_summary" /\ list # <<>> =>
            /\ summary.total_visitors = Len(list)
            /\ summary.purchasers = CountWhere(list, IsPurchaser)
            /\ summary.total_checkout_visitors <= summary.purchasers
            /\ summary.purchasers <= summary.total_visitors
            /\ SumOfCounts(summary.behavior_distribution,
                           DOMAIN summary.behavior_distribution) = summary.total_visitors

\* a purchaser by label or by one of the two flags
FlaggedPurchaser(t) ==
    \/ DictGetOr(t, "behavior", "unknown") = "purchasing"
    \/ DictGetOr(t, "visited_checkout", FALSE)
    \/ DictGetOr(t, "made_purchase", FALSE)

\* a purchaser by label, by one of the two flags or by a checkout zone visited
FlaggedOrZonedPurchaser(t) ==
    FlaggedPurchaser(t) \/ "checkout" \in DictGetOr(t, "zones_visited", {})

----------------------------------------------------------------------------
(* Properties of ZoneDetector, checked under ZoneSpec *)

\* the point lies in the zone's normalized rectangle scaled by the frame size,
\* borders included
InScaled(point, zone, width, height) ==
    /\ zone.x_start[1] * width <= point[1] * zone.x_start[2]
    /\ point[1] * zone.x_end[2] <= zone.x_end[1] * width
    /\ zone.y_start[1] * height <= point[2] * zone.y_start[2]
    /\ point[2] * zone.y_end[2] <= zone.y_end[1] * height

\* the point lies in the scaled rectangle with each bound cut to a whole pixel
InPixels(point, zone, width, height) ==
    /\ (zone.x_start[1] * width) \div zone.x_start[2] <= point[1]
    /\ point[1] <= (zone.x_end[1] * width) \div zone.x_end[2]
    /\ (zone.y_start[1] * height) \div zone.y_start[2] <= point[2]
    /\ point[2] <= (zone.y_end[1] * height) \div zone.y_end[2]

\* a get_zone_name() step names the first of entry, exit, checkout whose rectangle
\* holds the point, main_area if none does, and changes nothing else
ZoneQueryStep(Inside(_, _, _, _)) ==
    zone_call' # zone_call =>
        LET detector == Val(zone_detector)
            point == zone_call'.point
            InZone(zone) == Inside(point, zone, detector.frame_width, detector.frame_height)
        IN  /\ zone_call'.name =
                  IF InZone(zones_config.ENTRY_ZONE) THEN "entry"
                  ELSE IF InZone(zones_config.EXIT_ZONE) THEN "exit"
                  ELSE IF InZone(zones_config.CHECKOUT_ZONE) THEN "checkout"
                  ELSE "main_area"
            /\ zone_detector' = zone_detector /\ zones_config' = zones_config
            /\ UNCHANGED <<analyzer, analyses, summary_call, trackerVars, alertVars, serverVars>>

\* C24 (as claimed): the rectangles are the normalized ones scaled by the frame
\* width and height
C24_ZoneOfScaledRectangles == [][ZoneQueryStep(InScaled)]_vars

\* C24 (amended): the rectangles are the normalized ones scaled by the frame
\* width and height with each bound truncated to a whole pixel; the first of
\* entry, exit, checkout holding the point wins, borders included, else
\* main_area, and the call changes no state
C24_ZoneOfPixelRectangles == [][ZoneQueryStep(InPixels)]_vars

\* C24 witness: a point on the border of the entry rectangle that also lies in
\* the checkout rectangle was classified
C24_Witness ==
    /\ zone_call.op = "get_zone_name" /\ ~IsNone(zone_detector)
    /\ point_in_zone(zone_call.point, Val(zone_detector).entry_zone)
    /\ point_in_zone(zone_call.point, Val(zone_detector).checkout_zone)
    /\ zone_call.point[1] = Val(zone_detector).entry_zone.x_max

\* a zone with x_start >= x_end or y_start >= y_end
InvalidZone(zone) ==
    ~RatioLess(zone.x_start, zone.x_end) \/ ~RatioLess(zone.y_start, zone.y_end)

\* C25 (as claimed): under a configuration with an invalid zone no ZoneDetector
\* instance comes to exist
C25_InvalidZonesRejected ==
    (\E key \in DOMAIN zones_config : InvalidZone(zones_config[key])) => IsNone(zone_detector)

----------------------------------------------------------------------------
(* Properties of get_alert_history, checked under HistorySpec *)

\* the alerts of the history, restricted to alert_type when one is given
HistoryOfType(alert_type) ==
    IF IsNone(alert_type) THEN alert_history
    ELSE SelectSeq(alert_history, LAMBDA o : alerts[o].alert_type = Val(alert_type))

\* the k last elements of a list
LastK(list, k) == SubSeq(list, Len(list) - k + 1, Len(list))

\* C29 (as claimed): get_alert_history(limit, alert_type) returns the min(limit, n)
\* most recent of the n alerts of the history (of that type, when given) in
\* creation order, for every limit >= 0; limit = 0 returns the empty list
C29_HistoryLimit ==
    acall.op = "get_alert_history" =>
        LET selected == HistoryOfType(acall.alert_type)
        IN  acall.ret = LastK(selected, Min(acall.limit, Len(selected)))

----------------------------------------------------------------------------
(* Properties of the constructors, checked under ConstructionSpec *)

\* C26 (as claimed): a constructor call with a non-positive threshold returns no
\* instance
C26_NonPositiveRejected ==
    /\ ( /\ constructed.op = "PersonTracker"
         /\ \/ constructed.args.max_age <= 0
            \/ constructed.args.min_hits <= 0
            \/ ~RatioGreater(constructed.args.iou_threshold, RatioZero) )
       => IsNone(constructed.instance)
    /\ ( /\ constructed.op = "AlertSystem"
         /\ \/ /\ ~IsNone(constructed.args.crowd_threshold)
               /\ Val(constructed.args.crowd_threshold) <= 0
            \/ constructed.args.loitering_time <= 0 )
       => IsNone(constructed.instance)

----------------------------------------------------------------------------
(* Properties of the threads, checked under SnapshotSpec and StreamSpec *)

\* C27 (as claimed): what get_statistics() returns to the reader is the count of a
\* state with every alert wholly recorded: total_alerts = alert_history_size,
\* active_alerts + resolved_alerts = total_alerts and resolved_alerts >= 0
C27_ConsistentSnapshot ==
    reading.op = "get_statistics" =>
        /\ reading.ret.total_alerts = reading.ret.alert_history_size
        /\ reading.ret.active_alerts + reading.ret.resolved_alerts
               = reading.ret.total_alerts
        /\ reading.ret.resolved_alerts >= 0

\* C28 (as claimed): at no time are two clients of the camera inside update()
C28_UpdatesSerial ==
    \A c, d \in Clients : InUpdate(c) /\ InUpdate(d) => c = d

----------------------------------------------------------------------------
(* Properties of the matching of one update(), checked under Spec *)

\* IoU between the most recent bbox of track i before the step and a detection
IouBefore(i, detection) ==
    calculate_iou(Last(tracks[i].detections).bbox, detection.bbox)

AtLeast(p, q) == ~RatioLess(p, q)

\* C30: the pairs one update() commits over existing tracks are the greedy
\* matching: committed in non-increasing IoU order, each the greatest IoU among
\* the tracks and detections not committed before it; every committed pair joins
\* an active track and a detection with IoU >= iou_threshold, equality included;
\* and when matching stops no active track left unmatched and detection left
\* unmatched have IoU >= iou_threshold
C30_GreedyStep ==
    LET persons == person_detections(call'.detections)
        nT == Len(tracks)
        nD == Len(persons)
        unmatched_tracks == { i \in 1..nT : tracks[i].is_active /\ ~Grown(i) }
        new_tracks == (nT + 1)..Len(tracks')
    IN  nT > 0 =>
        \E matrix \in { iou_matrix(tracks, persons) } :
        \E pairs \in { greedy_pairs(matrix, nT, nD, {}, {}, <<>>) } :
            LET PairIou(k) == matrix[pairs[k][1]][pairs[k][2]]
                Earlier(k) == 1..(k - 1)
            IN  /\ \A k \in 1..(Len(pairs) - 1) : AtLeast(PairIou(k), PairIou(k + 1))
                /\ \A k \in 1..Len(pairs) :
                      \A t_idx \in 1..nT, d_idx \in 1..nD :
                          ( /\ \A e \in Earlier(k) :
                                  pairs[e][1] # t_idx /\ pairs[e][2] # d_idx
                            /\ tracks[t_idx].is_active )
                          => AtLeast(PairIou(k), IouBefore(t_idx, persons[d_idx]))
                /\ { i \in 1..nT : Grown(i) } = { pairs[k][1] : k \in 1..Len(pairs) }
                /\ \A k \in 1..Len(pairs) :
                      Last(tracks'[pairs[k][1]].detections) = persons[pairs[k][2]]
                /\ \A i \in 1..nT :
                      Grown(i) => /\ tracks[i].is_active
                                  /\ AtLeast(IouBefore(i, Last(tracks'[i].detections)),
                                             iou_threshold)
                /\ \A i \in unmatched_tracks, j \in new_tracks :
                      RatioLess(IouBefore(i, tracks'[j].detections[1]), iou_threshold)

C30_GreedyMatching == [][C30_GreedyStep]_vars

\* C30 witness: one call committed two pairs, one of them with IoU exactly
\* iou_threshold
C30_Witness ==
    \E i, j \in 1..Len(tracks) :
        /\ i # j
        /\ Len(tracks[i].frames) >= 2 /\ Last(tracks[i].frames) = frame_count
        /\ Len(tracks[j].frames) >= 2 /\ Last(tracks[j].frames) = frame_count
        /\ LET n == Len(tracks[i].detections)
               iou == calculate_iou(tracks[i].detections[n - 1].bbox,
                                    tracks[i].detections[n].bbox)
           IN  ~RatioLess(iou, iou_threshold) /\ ~RatioGreater(iou, iou_threshold)

----------------------------------------------------------------------------
(* Ties, coverage of the detections and the end of a track, checked under Spec *)

SameRatio(p, q) == ~RatioLess(p, q) /\ ~RatioGreater(p, q)

\* C31: of the remaining track/detection pairs that share the highest IoU the one
\* committed has the lowest track index and, among those, the lowest detection
\* index; the tracks extended by the call are those of the committed pairs
C31_TieStep ==
    LET persons == person_detections(call'.detections)
        nT == Len(tracks)
        nD == Len(persons)
    IN  nT > 0 =>
        \E matrix \in { iou_matrix(tracks, persons) } :
        \E pairs \in { greedy_pairs(matrix, nT, nD, {}, {}, <<>>) } :
            /\ \A k \in 1..Len(pairs) :
                  \A t_idx \in 1..nT, d_idx \in 1..nD :
                      ( /\ \A e \in 1..(k - 1) : pairs[e][1] # t_idx /\ pairs[e][2] # d_idx
                        /\ SameRatio(matrix[t_idx][d_idx], matrix[pairs[k][1]][pairs[k][2]]) )
                      => \/ pairs[k][1] < t_idx
                         \/ pairs[k][1] = t_idx /\ pairs[k][2] <= d_idx
            /\ \A i \in 1..nT :
                  Grown(i) <=> \E k \in 1..Len(pairs) :
                                  /\ pairs[k][1] = i
                                  /\ Last(tracks'[i].detections) = persons[pairs[k][2]]

C31_TiesByScanOrder == [][C31_TieStep]_vars

\* C31 witness: two tracks had the same last bbox, one detection came at the same
\* IoU from both, and the call gave it to the track of lower index
C31_Witness ==
    \E i, j \in 1..Len(tracks) :
        /\ i < j
        /\ Len(tracks[i].frames) >= 2 /\ Last(tracks[i].frames) = frame_count
        /\ tracks[i].frames[Len(tracks[i].frames) - 1] = frame_count - 1
        /\ tracks[j].is_active /\ tracks[j].frames_without_detection = 1
        /\ Last(tracks[j].frames) = frame_count - 1
        /\ Last(tracks[j].detections).bbox
               = tracks[i].detections[Len(tracks[i].detections) - 1].bbox

\* the active tracks after the step whose most recent detection is d, taken in
\* this call
HoldersOf(d) ==
    { i \in 1..Len(tracks') : /\ tracks'[i].is_active
                              /\ Last(tracks'[i].frames) = frame_count'
                              /\ Last(tracks'[i].detections) = d }

\* C32: after update() each person detection of the batch is the most recent
\* detection of one active track of its own; the number of tracks grows by the
\* number of detections not matched to an existing track; on an empty store the
\* detections open the tracks with ids 1..n in list order
C32_CoverStep ==
    LET persons == person_detections(call'.detections)
        matched == { i \in 1..Len(tracks) : Grown(i) }
    IN  /\ \A k \in 1..Len(persons) :
              Cardinality(HoldersOf(persons[k]))
                  = Cardinality({ n \in 1..Len(persons) : persons[n] = persons[k] })
        /\ Len(tracks') - Len(tracks) = Len(persons) - Cardinality(matched)
        /\ \A j \in (Len(tracks) + 1)..Len(tracks') :
              Len(tracks'[j].detections) = 1 /\ tracks'[j].is_active
        /\ Len(tracks) = 0 =>
              /\ Len(tracks') = Len(persons)
              /\ \A k \in 1..Len(persons) :
                    tracks'[k].track_id = k /\ tracks'[k].detections = << persons[k] >>

C32_EveryDetectionOnOneTrack == [][C32_CoverStep]_vars

\* C32 witness: one call on a non-empty store extended an existing track with
\* one detection and opened a new track for another
C32_Witness ==
    \E i, j \in 1..Len(tracks) :
        /\ i < j
        /\ Len(tracks[i].frames) >= 2 /\ Last(tracks[i].frames) = frame_count
        /\ tracks[j].frames = << frame_count >>
        /\ Val(tracks[i].entry_frame) < frame_count

\* C33: a track with total_frames >= min_hits is active while its count of
\* consecutive unmatched calls is at most max_age; with the (max_age + 1)-th it
\* is exited, its count stays there, and it is listed by get_completed_tracks()
\* and not by get_active_tracks()
C33_LostThenExited ==
    \A i \in 1..Len(tracks) :
        tracks[i].total_frames >= min_hits =>
            IF tracks[i].frames_without_detection <= max_age
            THEN /\ tracks[i].is_active
                 /\ \E k \in 1..Len(get_active_tracks) : get_active_tracks[k] = tracks[i]
            ELSE /\ ~tracks[i].is_active
                 /\ tracks[i].frames_without_detection = max_age + 1
                 /\ \E k \in 1..Len(get_completed_tracks) :
                        get_completed_tracks[k] = tracks[i]
                 /\ \A k \in 1..Len(get_active_tracks) : get_active_tracks[k] # tracks[i]

\* C33 witness: a track was lost for max_age calls, exited in the next one and
\* is still listed as completed a call later
C33_Witness ==
    \E i \in 1..Len(tracks) :
        /\ tracks[i].total_frames >= min_hits
        /\ ~tracks[i].is_active
        /\ Val(tracks[i].exit_frame) = Last(tracks[i].frames) + max_age + 1
        /\ frame_count > Val(tracks[i].exit_frame)

\* C34: an update() call leaves every inactive track as it was, and each track it
\* opens gets an id no existing track has
C34_ExitedStep ==
    /\ \A i \in 1..Len(tracks) : ~tracks[i].is_active => tracks'[i] = tracks[i]
    /\ \A j \in (Len(tracks) + 1)..Len(tracks') :
          \A i \in 1..Len(tracks) : tracks'[j].track_id # tracks[i].track_id

C34_ExitedTracksFrozen == [][C34_ExitedStep]_vars

\* C34 witness: a detection with the last bbox of an exited track came in a later
\* call; the exited track kept its detections and a track with a higher id holds
\* the detection
C34_Witness ==
    \E i, j \in 1..Len(tracks) :
        /\ ~tracks[i].is_active
        /\ tracks[j].is_active
        /\ tracks[j].track_id > tracks[i].track_id
        /\ Val(tracks[j].entry_frame) > Val(tracks[i].exit_frame)
        /\ tracks[j].detections[1].bbox = Last(tracks[i].detections).bbox
        /\ Last(tracks[i].frames) < Val(tracks[i].exit_frame)

\* C37: every track of the tracker has idle_duration 0, no visited zone, no
\* behaviour history, visited_checkout false and made_purchase false
C37_AnalysisFieldsUntouched ==
    \A i \in 1..Len(tracks) :
        /\ tracks[i].idle_duration = 0
        /\ tracks[i].visited_zones = <<>>
        /\ tracks[i].behavior_history = <<>>
        /\ ~tracks[i].visited_checkout
        /\ ~tracks[i].made_purchase

\* C37 witness: a track stayed at one place over three calls, seconds apart, and
\* its idle_duration is still 0
C37_Witness ==
    \E i \in 1..Len(tracks) :
        /\ Len(tracks[i].positions) >= 3
        /\ \A k \in 1..Len(tracks[i].positions) :
              tracks[i].positions[k] = tracks[i].positions[1]
        /\ Last(tracks[i].timestamps) > tracks[i].timestamps[1]
        /\ tracks[i].idle_duration = 0

----------------------------------------------------------------------------
(* The counters of an AlertSystem, checked under AlertSpec *)

RECURSIVE SumOver(_, _)
SumOver(f, keys) ==
    IF keys = {} THEN 0
    ELSE LET k == CHOOSE x \in keys : TRUE IN f[k] + SumOver(f, keys \ {k})

\* the alerts of the history that are resolved (TRUE) or unresolved (FALSE)
InHistory(resolved) ==
    { k \in 1..Len(alert_history) : alerts[alert_history[k]].resolved = resolved }

\* C36: between calls total_alerts = len(alert_history) = the sum of the
\* alerts_by_type counters, and get_statistics() gives active_alerts as the number
\* of unresolved alerts of the history and resolved_alerts as the number of
\* resolved ones, never negative
C36_CountersAgree ==
    LET statistics == get_statistics(AlertState)
    IN  /\ total_alerts = Len(alert_history)
        /\ total_alerts = SumOver(alerts_by_type, AlertType)
        /\ statistics.total_alerts = total_alerts
        /\ statistics.active_alerts = Cardinality(InHistory(FALSE))
        /\ statistics.resolved_alerts = Cardinality(InHistory(TRUE))
        /\ statistics.resolved_alerts >= 0

\* C36 witness: the history holds a resolved alert that clear_resolved_alerts()
\* took off the active list, and an alert recorded after it
C36_Witness ==
    /\ Len(alert_history) >= 2
    /\ \E k \in 1..(Len(alert_history) - 1) :
          /\ alerts[alert_history[k]].resolved
          /\ \A n \in 1..Len(active_alerts) : active_alerts[n] # alert_history[k]

----------------------------------------------------------------------------
(* Termination of the greedy loop, checked under MatchSpec *)

\* an iteration either leaves the loop, the matched sets as they are, or marks
\* one track and one detection that were not matched before, and the commits
\* stay within the number of tracks and of detections
C35_IterationStep ==
    (matching.pc = "loop" /\ matching' # matching) =>
        \/ /\ matching'.pc = "done"
           /\ matching'.matched_tracks = matching.matched_tracks
           /\ matching'.matched_detections = matching.matched_detections
        \/ /\ matching'.pc = "loop"
           /\ \E t_idx \in (1..Len(matching.tracks)) \ matching.matched_tracks :
                 matching'.matched_tracks = matching.matched_tracks \cup {t_idx}
           /\ \E d_idx \in (1..Len(matching.detections)) \ matching.matched_detections :
                 matching'.matched_detections = matching.matched_detections \cup {d_idx}
           /\ matching'.commits = matching.commits + 1
           /\ matching'.commits <= Min(Len(matching.tracks), Len(matching.detections))

\* C35: with iou_threshold > 0 every iteration of the greedy loop stops or marks
\* one new track and one new detection, the commits number at most
\* min(tracks, detections), and a loop that was entered is left
C35_MatchingTerminates ==
    /\ [][C35_IterationStep]_vars
    /\ (matching.pc = "loop") ~> (matching.pc = "done")

\* C35 witness: a loop over two tracks and two detections was left after two
\* commits
C35_Witness ==
    /\ matching.pc = "done"
    /\ Len(matching.tracks) = 2 /\ Len(matching.detections) = 2
    /\ matching.commits = 2

====
